---- MODULE Spec2Model ----
(***************************************************************************)
(* Model of the connector-migration mapping engine                         *)
(* (ConnectorComparator.transformSMToFm and its callers).                  *)
(*                                                                         *)
(* One behaviour is process_connectors handling one connector: the input   *)
(* checks, the template extraction, the pass over the user configs (rule   *)
(* interpreter), the pass over the template config defs (derivation        *)
(* registry), the direct-name pass, semantic matching, the required-config *)
(* check, transform classification, the entry process_connectors stores,   *)
(* and the bucket each write_fm_configs_to_file puts the connector in.     *)
(***************************************************************************)
EXTENDS Integers, Sequences, FiniteSets, TLC

VARIABLES
    input_kind,             \* shape of connector['config']: "dict", "empty", "not_dict"
    config_dict,            \* the user configs, in insertion order: Seq of [key, value]
    fm_template,            \* what _get_templates_for_connector returned (shape, template_id)
    template_config_defs,   \* config_defs of the FM template: Seq of TemplateConfigDef
    connector_config_defs,  \* connector_configs of the FM template: Seq of rules
    pc,                     \* position inside process_connectors / transformSMToFm
    idx,                    \* index of the running for-loop
    fm_configs,             \* the local dict fm_configs (key -> value)
    warnings,               \* the local list warnings
    errors,                 \* the local list errors
    semantic_match_list,    \* the local set semantic_match_list
    visited,                \* template config defs the derivation pass has reached
    direct_written,         \* key -> value first written by a same-name copy of the user value
    result,                 \* the dict transformSMToFm returned
    fm_out,                 \* the entry process_connectors stored for the connector
    caller,                 \* the script whose write_fm_configs_to_file ran
    bucket,                 \* the directory that call chose for the connector
    fn,                     \* the function a single call of FnSpec exercises
    arg,                    \* the arguments of that call
    ret,                    \* what the call returned
    called,                 \* whether the call has been made
    poll_pc,                \* position inside poll_validation_status
    now,                    \* time.time(), in seconds
    start_time,             \* the parameter start_time of the running call
    poll_attempts,          \* the parameter and local poll_attempts
    response                \* what the last status request met

vars == << input_kind, config_dict, fm_template, template_config_defs,
           connector_config_defs, pc, idx, fm_configs, warnings, errors,
           semantic_match_list, visited, direct_written, result, fm_out,
           caller, bucket, fn, arg, ret, called,
           poll_pc, now, start_time, poll_attempts, response >>

\* the variables of the polling of a validation status
Poll == << poll_pc, now, start_time, poll_attempts, response >>

\* the variables of a single function call
Calls == << fn, arg, ret, called, Poll >>

(***************************************************************************)
(* Bounds of the model.                                                    *)
(***************************************************************************)
MaxUserKeys == 2
MaxDefs == 2

(***************************************************************************)
(* Python values.                                                          *)
(***************************************************************************)
None == "<None>"

EmptyDict == [k \in {} |-> None]

Put(d, k, v) == [x \in (DOMAIN d) \cup {k} |-> IF x = k THEN v ELSE d[x]]

Range(s) == {s[i] : i \in 1..Len(s)}

\* dict.update(other)
Update(d, other) ==
    [x \in (DOMAIN d) \cup (DOMAIN other) |-> IF x \in DOMAIN other THEN other[x] ELSE d[x]]

\* str.startswith(prefix) on the keys of the model
StartsWith(s, prefix) ==
    CASE prefix = "connector.class" -> s = "connector.class"
      [] prefix = "name"            -> s = "name"
      [] prefix = "transforms"      -> s \in {"transforms", "transforms.t1.type"}
      [] prefix = "predicates"      -> FALSE
      [] prefix = "jdbc:"           -> s \in {"jdbc:mysql://db.example.com:3306/sales",
                                              "jdbc:mysql://db.example.com:3306"}
      [] OTHER                      -> FALSE

\* user_configs as a dict
UserKeySet(cd) == {cd[i].key : i \in 1..Len(cd)}

UserGet(cd, k) ==
    IF k \in UserKeySet(cd)
    THEN (CHOOSE e \in Range(cd) : e.key = k).value
    ELSE None

(***************************************************************************)
(* Connection strings of the model and what _parse_jdbc_url extracts.      *)
(***************************************************************************)
JdbcUrlWithDb == "jdbc:mysql://db.example.com:3306/Sales"
JdbcUrlNoDb == "jdbc:mysql://db.example.com:3306"
PlainUrl == "db.example.com/Sales"

\* jdbc_url.startswith('jdbc:')
JdbcUrlWithCredentials ==
    "jdbc:mysql://db.example.com:3306/Sales?user=Admin&password=S3cret"
JdbcUrlEmptyParams == "jdbc:mysql://DB.example.com/?user=&password="

IsJdbc(url) ==
    url \in {JdbcUrlWithDb, JdbcUrlNoDb, JdbcUrlWithCredentials, JdbcUrlEmptyParams}

\* _parse_jdbc_url(url).get('db.name'): the url is lower-cased first, then
\* '://[^/]+/([^/?]+)' is searched in it.
ParsedDbName(url) ==
    CASE url = JdbcUrlWithDb -> "sales"
      [] url = JdbcUrlWithCredentials -> "sales"
      [] url = PlainUrl      -> None
      [] OTHER               -> None

(***************************************************************************)
(* Template config defs and the derivation registry.                       *)
(***************************************************************************)
DefNames(defs) == {defs[i].name : i \in 1..Len(defs)}

\* _find_template_config_def_by_name: the first def of that name, or None
FindDefIndex(name, defs) ==
    IF name \in DefNames(defs)
    THEN CHOOSE i \in 1..Len(defs) :
            /\ defs[i].name = name
            /\ \A j \in 1..(i - 1) : defs[j].name # name
    ELSE 0

DefIsInternal(name, defs) == defs[FindDefIndex(name, defs)].internal

\* the names config_derivation_methods has an entry for
DerivationRegistry == {"connection.url", "db.name", "redis.portnumber"}

HasDerivationMethod(name) == name \in DerivationRegistry

\* _derive_db_name
DeriveDbName(cd) ==
    IF "connection.url" \in UserKeySet(cd) /\ IsJdbc(UserGet(cd, "connection.url"))
    THEN ParsedDbName(UserGet(cd, "connection.url"))
    ELSE IF "db.name" \in UserKeySet(cd)
         THEN UserGet(cd, "db.name")
         ELSE None

\* derivation_method(config_dict, fm_configs, template_config_defs, template_config_name):
\* _derive_connection_url takes three arguments besides self, so the call with
\* four raises TypeError.
Derive(name, cd) ==
    CASE name = "connection.url" -> [raised |-> TRUE, value |-> None]
      [] name = "db.name"        -> [raised |-> FALSE, value |-> DeriveDbName(cd)]
      [] OTHER                   -> [raised |-> FALSE, value |-> None]

(***************************************************************************)
(* Connector config defs (rules) and the rule interpreter.                 *)
(*                                                                         *)
(* A rule is [name, value, has_switch, switch, mapper].  value is          *)
(* [type, internal, parts]: type "none" is an absent value, "bool" a JSON  *)
(* boolean, "str" a string made of parts, each a literal text or a         *)
(* ${placeholder}; internal marks a string holding one of the internal     *)
(* markers.  switch is a sequence of [key, mapping], a mapping a sequence  *)
(* of [k, v, is_str, ph] entries.  mapper is the dynamic.mapper name.      *)
(*                                                                         *)
(* The interpreter works on st = [fm, w, sml, dw, raised]: fm_configs,     *)
(* warnings, semantic_match_list, direct_written and whether it raised.    *)
(***************************************************************************)
NoValue == [type |-> "none", internal |-> FALSE, parts |-> << >>]

Warn(st, kind, key) == [st EXCEPT !.w = Append(@, [kind |-> kind, key |-> key])]

Write(st, key, value) == [st EXCEPT !.fm = Put(@, key, value)]

\* a write of the user's own value under the same name, the name being a
\* declared template config def
WriteDirect(st, key, value, defs) ==
    [st EXCEPT !.fm = Put(@, key, value),
               !.dw = IF key \in DefNames(defs) /\ key \notin DOMAIN @
                      THEN Put(@, key, value) ELSE @]

Backlog(st, key) == [st EXCEPT !.sml = @ \cup {key}]

\* default_pattern.search(value)
HasPlaceholder(value) == \E i \in 1..Len(value.parts) : value.parts[i].ph

\* _find_referenced_keys
FindReferencedKeys(value, high_level_keys) ==
    {value.parts[i].text : i \in {j \in 1..Len(value.parts) : value.parts[j].ph}}
        \cap high_level_keys

\* value == f"${{{referenced_key}}}"
IsExactReference(value, referenced_key) ==
    value.parts = << [ph |-> TRUE, text |-> referenced_key] >>

\* value != user_config_value, for a string without placeholders
IsConstant(value, user_config_value) ==
    value.parts = << [ph |-> FALSE, text |-> user_config_value] >>

\* str(value).lower() of a boolean
BoolText(value) == IF value.parts[1].text = "True" THEN "true" ELSE "false"

\* user_configs[referenced_key].strip() is non-empty
NonBlank(v) == v \notin {"", " "}

\* the for-loop of _process_value_case over referenced_keys, taken in the
\* order `order` (the iteration order of a Python set of strings)
RECURSIVE PlaceholderLoop(_, _, _, _, _, _, _)
PlaceholderLoop(rule, user_config_value, cd, defs, st, order, i) ==
    IF i > Len(order) THEN st
    ELSE LET referenced_key == order[i]
             config_name == rule.name
         IN  IF config_name \in DOMAIN st.fm THEN st
             ELSE IF referenced_key \in UserKeySet(cd) /\ NonBlank(UserGet(cd, referenced_key))
             THEN Write(st, config_name, user_config_value)
             ELSE IF FindDefIndex(referenced_key, defs) # 0 /\ ~DefIsInternal(referenced_key, defs)
             THEN IF HasDerivationMethod(referenced_key) THEN st
                  ELSE IF IsExactReference(rule.value, referenced_key)
                  THEN PlaceholderLoop(rule, user_config_value, cd, defs,
                                       Write(st, referenced_key, user_config_value), order, i + 1)
                  ELSE PlaceholderLoop(rule, user_config_value, cd, defs, st, order, i + 1)
             ELSE IF FindDefIndex(referenced_key, defs) # 0 /\ DefIsInternal(referenced_key, defs)
             THEN PlaceholderLoop(rule, user_config_value, cd, defs,
                                  Warn(st, "internal_inferred", config_name), order, i + 1)
             ELSE PlaceholderLoop(rule, user_config_value, cd, defs,
                                  Backlog(st, config_name), order, i + 1)

\* _process_value_case
ProcessValueCase(rule, user_config_value, cd, defs, st, order) ==
    IF rule.value.type # "str"
    THEN Write(st, rule.name, BoolText(rule.value))
    ELSE IF rule.value.internal
    THEN Warn(st, "internal", rule.name)
    ELSE IF HasPlaceholder(rule.value)
    THEN PlaceholderLoop(rule, user_config_value, cd, defs, st, order, 1)
    ELSE IF ~IsConstant(rule.value, user_config_value)
    THEN Warn(st, "constant_mismatch", rule.name)
    ELSE Write(st, rule.name, user_config_value)

\* a reverse switch that hands back the matched key whatever it is
RECURSIVE ApplyReverseSwitchKeepDefault(_, _, _)
ApplyReverseSwitchKeepDefault(switch_mapping, user_value, i) ==
    IF i > Len(switch_mapping) THEN None
    ELSE IF switch_mapping[i].v = user_value THEN switch_mapping[i].k
    ELSE ApplyReverseSwitchKeepDefault(switch_mapping, user_value, i + 1)

\* _apply_reverse_switch
RECURSIVE ApplyReverseSwitch(_, _, _)
ApplyReverseSwitch(switch_mapping, user_value, i) ==
    IF i > Len(switch_mapping) THEN None
    ELSE IF switch_mapping[i].v = user_value
    THEN (IF switch_mapping[i].k = "default" THEN None ELSE switch_mapping[i].k)
    ELSE ApplyReverseSwitch(switch_mapping, user_value, i + 1)

\* any(value is not None and default_pattern.search(value) for value in
\* switch_mapping.values()): "raise" when a non-string value is searched
RECURSIVE HasMatchers(_, _)
HasMatchers(switch_mapping, i) ==
    IF i > Len(switch_mapping) THEN "false"
    ELSE IF ~switch_mapping[i].is_str THEN "raise"
    ELSE IF switch_mapping[i].ph THEN "true"
    ELSE HasMatchers(switch_mapping, i + 1)

\* _process_non_internal_switch_case
ProcessNonInternalSwitchCase(rule, template_config_name, switch_mapping, cd, st) ==
    LET has_matchers == HasMatchers(switch_mapping, 1)
        high_level_value == ApplyReverseSwitch(switch_mapping, UserGet(cd, rule.name), 1)
    IN  IF has_matchers = "raise" THEN [st EXCEPT !.raised = TRUE]
        ELSE IF has_matchers = "true"
        THEN (IF HasDerivationMethod(template_config_name) THEN st
              ELSE Backlog(st, rule.name))
        ELSE IF UserGet(cd, rule.name) # None
        THEN (IF high_level_value # None
              THEN Write(st, template_config_name, high_level_value)
              ELSE Warn(st, "switch_no_match", rule.name))
        ELSE st

\* _process_switch_case
RECURSIVE ProcessSwitchCase(_, _, _, _, _)
ProcessSwitchCase(rule, cd, defs, st, i) ==
    IF i > Len(rule.switch) \/ st.raised THEN st
    ELSE LET template_config_key == rule.switch[i].key
             switch_mapping == rule.switch[i].mapping
         IN  IF template_config_key \in DOMAIN st.fm THEN st
             ELSE IF FindDefIndex(template_config_key, defs) # 0
             THEN IF DefIsInternal(template_config_key, defs)
                  THEN ProcessSwitchCase(rule, cd, defs,
                           Warn(st, "internal_inferred", rule.name), i + 1)
                  ELSE ProcessSwitchCase(rule, cd, defs,
                           ProcessNonInternalSwitchCase(rule, template_config_key,
                                                        switch_mapping, cd, st), i + 1)
             ELSE ProcessSwitchCase(rule, cd, defs, st, i + 1)

\* infer_dynamic_mappings
InferDynamicMappings(dynamic_mapper_fun_name, user_config_value) ==
    IF dynamic_mapper_fun_name = "value.converter.reference.subject.name.strategy.mapper"
    THEN CASE user_config_value = "io.confluent.kafka.serializers.subject.TopicNameStrategy"
                -> "TopicNameStrategy"
           [] user_config_value = "io.confluent.kafka.serializers.subject.RecordNameStrategy"
                -> "RecordNameStrategy"
           [] user_config_value = "io.confluent.kafka.serializers.subject.TopicRecordNameStrategy"
                -> "TopicRecordNameStrategy"
           [] OTHER -> None
    ELSE None

\* _process_dynamic_mapper_case
ProcessDynamicMapperCase(rule, user_config_value, defs, st) ==
    LET connector_config_name == rule.name
        template_config_def == FindDefIndex(connector_config_name, defs)
        fm_template_def == FindDefIndex(connector_config_name, defs)
        dynamic_mapping_value == InferDynamicMappings(rule.mapper, user_config_value)
    IN  IF template_config_def # 0
        THEN WriteDirect(st, connector_config_name, user_config_value, defs)
        ELSE IF rule.mapper # None /\ fm_template_def # 0
        THEN (IF dynamic_mapping_value # None
              THEN Write(st, defs[fm_template_def].name, dynamic_mapping_value)
              ELSE IF defs[fm_template_def].name \in DOMAIN st.fm
              THEN st
              ELSE Backlog(st, connector_config_name))
        ELSE Backlog(st, connector_config_name)

\* _process_null_value_case
ProcessNullValueCase(rule, user_config_value, defs, st) ==
    WriteDirect(st, rule.name, user_config_value, defs)

\* _process_user_config_in_connector_config_def
ProcessUserConfigInConnectorConfigDef(rule, user_config_value, cd, defs, st, order) ==
    IF rule.value.type # "none"
    THEN ProcessValueCase(rule, user_config_value, cd, defs, st, order)
    ELSE IF rule.has_switch
    THEN ProcessSwitchCase(rule, cd, defs, st, 1)
    ELSE IF rule.mapper # None
    THEN ProcessDynamicMapperCase(rule, user_config_value, defs, st)
    ELSE ProcessNullValueCase(rule, user_config_value, defs, st)

(***************************************************************************)
(* The inputs of the model.                                                *)
(***************************************************************************)
Entry(k, v) == [key |-> k, value |-> v]

\* the values a user key takes
UserValues(k) ==
    CASE k = "connection.url" -> {JdbcUrlWithDb, PlainUrl}
      [] k = "db.name"        -> {"v1", "v2"}
      [] k = "topic"          -> {"v1"}
      [] k = "tasks.max"      -> {"4"}

PropKeys == {"connection.url", "db.name", "topic", "tasks.max"}

\* the connector-specific part of a user config: distinct keys, in any order
UserProps ==
    {cd \in UNION {[1..n -> UNION {{Entry(k, v) : v \in UserValues(k)} : k \in PropKeys}]
                      : n \in 0..MaxUserKeys} :
        \A i, j \in 1..Len(cd) : i # j => cd[i].key # cd[j].key}

ClassEntry == << Entry("connector.class", "io.confluent.connect.jdbc.JdbcSourceConnector") >>

TransformEntries ==
    << Entry("transforms", "t1"),
       Entry("transforms.t1.type", "org.apache.kafka.connect.transforms.Cast$Value") >>

\* the template config defs a template of the model declares
DefRec(n, req, int, dflt, rec) ==
    [name |-> n, required |-> req, internal |-> int, default_value |-> dflt,
     recommended_values |-> rec]

Def(n, req, int, dflt) == DefRec(n, req, int, dflt, << >>)

DefChoices ==
    { Def("connection.url", FALSE, FALSE, None),
      Def("db.name", FALSE, FALSE, None),
      Def("db.name", TRUE, FALSE, None),
      Def("topic", FALSE, FALSE, None),
      Def("table", FALSE, FALSE, None),
      Def("table", TRUE, FALSE, None),
      Def("table", TRUE, FALSE, "t0"),
      Def("table", FALSE, TRUE, None) }

TemplateConfigDefs == UNION {[1..n -> DefChoices] : n \in 0..MaxDefs}

\* the rules a template of the model binds to a user key
Rule(n, val, hs, sw, mp) ==
    [name |-> n, value |-> val, has_switch |-> hs, switch |-> sw, mapper |-> mp]

Lit(t) == [ph |-> FALSE, text |-> t]
Ref(t) == [ph |-> TRUE, text |-> t]
StrValue(parts) == [type |-> "str", internal |-> FALSE, parts |-> parts]
MapEntry(k, v, ph) == [k |-> k, v |-> v, is_str |-> TRUE, ph |-> ph]

IdentityRule(n) == Rule(n, NoValue, FALSE, << >>, None)
DynamicRule(n) ==
    Rule(n, NoValue, FALSE, << >>, "value.converter.reference.subject.name.strategy.mapper")
BoolRule(n) ==
    Rule(n, [type |-> "bool", internal |-> FALSE, parts |-> << Lit("False") >>],
         FALSE, << >>, None)
InternalRule(n) ==
    Rule(n, [type |-> "str", internal |-> TRUE, parts |-> << Lit("{{.logicalClusterId}}") >>],
         FALSE, << >>, None)
ConstantRule(n) == Rule(n, StrValue(<< Lit("v1") >>), FALSE, << >>, None)
ExactRule(n) == Rule(n, StrValue(<< Ref("table") >>), FALSE, << >>, None)
CompositeRule(n) ==
    Rule(n, StrValue(<< Lit("jdbc://"), Ref("table"), Lit("/"), Ref("db.name") >>),
         FALSE, << >>, None)
ReverseSwitchRule(n) ==
    Rule(n, NoValue, TRUE,
         << [key |-> "table",
             mapping |-> << MapEntry("A", "v1", FALSE), MapEntry("default", "v2", FALSE) >>] >>,
         None)
MatcherSwitchRule(n) ==
    Rule(n, NoValue, TRUE,
         << [key |-> "table", mapping |-> << MapEntry("A", "${a}", TRUE) >>] >>, None)
BoolSwitchRule(n) ==
    Rule(n, NoValue, TRUE,
         << [key |-> "table",
             mapping |-> << [k |-> "A", v |-> "True", is_str |-> FALSE, ph |-> FALSE] >>] >>,
         None)

RuleChoices(n) ==
    CASE n = "db.name" ->
            { IdentityRule(n), DynamicRule(n), ConstantRule(n), ExactRule(n) }
      [] n = "topic" ->
            { IdentityRule(n), DynamicRule(n), BoolRule(n), InternalRule(n), ExactRule(n),
              CompositeRule(n), ReverseSwitchRule(n), MatcherSwitchRule(n), BoolSwitchRule(n) }
      [] OTHER -> {}

RECURSIVE RuleLists(_)
RuleLists(keys) ==
    IF keys = << >> THEN { << >> }
    ELSE LET rest == RuleLists(Tail(keys))
         IN  rest \cup {<< r >> \o l : r \in RuleChoices(Head(keys)), l \in rest}

\* connector_configs of a template: at most one rule per user key (a rule is
\* looked up by the user key alone, so rules of other names are never read)
ConnectorConfigDefs(props) == RuleLists([i \in 1..Len(props) |-> props[i].key])

NoResult ==
    [status |-> "none", has_name |-> FALSE, fm_is_dict |-> FALSE,
     fm_configs |-> EmptyDict, warnings |-> << >>, errors |-> << >>]

NoEntry == [stored |-> FALSE, config_is_dict |-> FALSE, config |-> EmptyDict,
            mapping_errors |-> << >>, mapping_warnings |-> << >>]

InitLocals ==
    /\ pc = "validate"
    /\ idx = 0
    /\ fm_configs = EmptyDict
    /\ warnings = << >>
    /\ errors = << >>
    /\ semantic_match_list = {}
    /\ visited = 0
    /\ direct_written = EmptyDict
    /\ result = NoResult
    /\ fm_out = NoEntry
    /\ caller = "none"
    /\ bucket = "none"

\* start_time = None, and the value of response before any request
NoTime == 0 - 1
NoResponse == [raises |-> "none", status_code |-> 0, has_status |-> FALSE, phase |-> None]

\* no polling is under way
NoPoll ==
    /\ poll_pc = "idle"
    /\ now = 0
    /\ start_time = NoTime
    /\ poll_attempts = 0
    /\ response = NoResponse

\* no single function call and no polling is under way
NoCall ==
    /\ fn = "none"
    /\ arg = << >>
    /\ ret = << >>
    /\ called = FALSE
    /\ NoPoll

\* connector['config'] is no dict, or an empty one
InitBadInput ==
    /\ input_kind \in {"not_dict", "empty"}
    /\ config_dict = << >>
    /\ fm_template = [shape |-> "none", has_template_id |-> FALSE]
    /\ template_config_defs = << >>
    /\ connector_config_defs = << >>

\* no connector.class, or no usable FM template
InitNoTemplate ==
    /\ input_kind = "dict"
    /\ \E props \in UserProps, has_class \in BOOLEAN :
          /\ has_class \/ props # << >>
          /\ config_dict = (IF has_class THEN ClassEntry ELSE << >>) \o props
    /\ fm_template \in
          [shape : {"none", "not_dict", "no_templates_key", "templates_not_list"},
           has_template_id : {FALSE}]
    /\ template_config_defs = << >>
    /\ connector_config_defs = << >>

\* a connector with connector.class and a template with a templates list
InitTemplate ==
    /\ input_kind = "dict"
    /\ \E props \in UserProps, has_transforms \in BOOLEAN :
          /\ config_dict = ClassEntry \o props
                              \o (IF has_transforms THEN TransformEntries ELSE << >>)
          /\ connector_config_defs \in ConnectorConfigDefs(props)
    /\ template_config_defs \in TemplateConfigDefs
    /\ fm_template \in [shape : {"ok"}, has_template_id : BOOLEAN]

Init == InitLocals /\ NoCall /\ (InitBadInput \/ InitNoTemplate \/ InitTemplate)

(***************************************************************************)
(* transformSMToFm, step by step.                                          *)
(***************************************************************************)
Err(kind, key) == [kind |-> kind, key |-> key]

ConnectorName == "c1"
TemplateId == "MySqlSource"

\* the dict `result` of the first lines, returned by the early exits
EarlyResult(errs) ==
    [status |-> "returned", has_name |-> FALSE, fm_is_dict |-> FALSE,
     fm_configs |-> EmptyDict, warnings |-> << >>, errors |-> errs]

\* result with the basic structure {connector.class, name}
SkeletonResult(errs) ==
    [status |-> "returned", has_name |-> FALSE, fm_is_dict |-> TRUE,
     fm_configs |-> Put(Put(EmptyDict, "connector.class", UserGet(config_dict, "connector.class")),
                        "name", ConnectorName),
     warnings |-> << >>, errors |-> errs]

Locals == << fm_configs, warnings, errors, semantic_match_list, visited, direct_written >>
Inputs == << input_kind, config_dict, fm_template, template_config_defs, connector_config_defs >>
Outputs == << fm_out, caller, bucket >>

\* input validation and the connector.class check
ValidateInput ==
    /\ pc = "validate"
    /\ IF input_kind = "not_dict"
       THEN /\ result' = EarlyResult(<< Err("not_dict", None) >>)
            /\ pc' = "returned"
       ELSE IF config_dict = << >>
       THEN /\ result' = EarlyResult(<< Err("no_configs", None) >>)
            /\ pc' = "returned"
       ELSE IF "connector.class" \notin UserKeySet(config_dict)
       THEN /\ result' = EarlyResult(<< Err("missing_connector_class", None) >>)
            /\ pc' = "returned"
       ELSE /\ result' = result
            /\ pc' = "extract"
    /\ UNCHANGED << Calls, Inputs, Locals, Outputs, idx >>

\* template lookup and extraction of the template components
ExtractTemplate ==
    /\ pc = "extract"
    /\ IF fm_template.shape = "none"
       THEN /\ result' = SkeletonResult(<< Err("no_fm_template", None) >>)
            /\ pc' = "returned"
       ELSE IF fm_template.shape \in {"not_dict", "no_templates_key", "templates_not_list"}
       THEN /\ result' = SkeletonResult(<< Err("template_extract", None) >>)
            /\ pc' = "returned"
       ELSE /\ result' = result
            /\ pc' = "init_fm"
    /\ UNCHANGED << Calls, Inputs, Locals, Outputs, idx >>

\* Step 1: connector.class, name and tasks.max, and the checks of the extracted lists
InitFmConfigs ==
    /\ pc = "init_fm"
    /\ fm_configs' =
          Put(Put(Put(EmptyDict, "connector.class",
                      IF fm_template.has_template_id THEN TemplateId
                      ELSE UserGet(config_dict, "connector.class")),
                  "name", ConnectorName),
              "tasks.max",
              IF "tasks.max" \in UserKeySet(config_dict)
              THEN UserGet(config_dict, "tasks.max") ELSE "1")
    /\ IF template_config_defs = << >>
       THEN /\ errors' = Append(errors, Err("empty_template_config_defs", None))
            /\ result' = EarlyResult(<< >>)
            /\ pc' = "returned"
            /\ idx' = idx
       ELSE /\ errors' = errors
            /\ result' = result
            /\ pc' = "connector_defs"
            /\ idx' = 1
    /\ UNCHANGED << Calls, Inputs, Outputs, warnings, semantic_match_list, visited, direct_written >>

\* the orders a Python set of strings can be iterated in
Orders(S) ==
    {o \in [1..Cardinality(S) -> S] : \A i, j \in 1..Cardinality(S) : i # j => o[i] # o[j]}

\* the first connector config def whose name is the user key, or 0
FindRuleIndex(key, rules) ==
    IF \E i \in 1..Len(rules) : rules[i].name = key
    THEN CHOOSE i \in 1..Len(rules) :
            /\ rules[i].name = key
            /\ \A j \in 1..(i - 1) : rules[j].name # key
    ELSE 0

St == [fm |-> fm_configs, w |-> warnings, sml |-> semantic_match_list,
       dw |-> direct_written, raised |-> FALSE]

\* the keys a rule's value references among the template config defs
RuleReferencedKeys(rule) ==
    IF rule.value.type = "str"
    THEN FindReferencedKeys(rule.value, DefNames(template_config_defs))
    ELSE {}

\* Step 2, one user config: the rule interpreter, or the unused-config warning
ProcessUserConfig ==
    /\ pc = "connector_defs"
    /\ idx \in 1..Len(config_dict)
    /\ LET user_config_key == config_dict[idx].key
           user_config_value == config_dict[idx].value
           r == FindRuleIndex(user_config_key, connector_config_defs)
       IN  \E order \in Orders(IF r = 0 THEN {} ELSE RuleReferencedKeys(connector_config_defs[r])) :
           LET st == IF StartsWith(user_config_key, "connector.class")
                        \/ StartsWith(user_config_key, "name")
                        \/ StartsWith(user_config_key, "transforms")
                        \/ StartsWith(user_config_key, "predicates")
                     THEN St
                     ELSE IF r # 0
                     THEN ProcessUserConfigInConnectorConfigDef(
                              connector_config_defs[r], user_config_value, config_dict,
                              template_config_defs, St, order)
                     ELSE IF user_config_key \in DefNames(template_config_defs)
                     THEN St
                     ELSE Warn(St, "unused", user_config_key)
           IN  /\ fm_configs' = st.fm
               /\ warnings' = st.w
               /\ semantic_match_list' = st.sml
               /\ direct_written' = st.dw
               /\ errors' = IF st.raised
                            THEN Append(errors, Err("user_configs", user_config_key))
                            ELSE errors
               /\ IF st.raised \/ idx = Len(config_dict)
                  THEN pc' = "template_defs" /\ idx' = 1
                  ELSE pc' = pc /\ idx' = idx + 1
    /\ UNCHANGED << Calls, Inputs, Outputs, visited, result >>

\* Step 3, one template config def: its derivation method, if it has one
DeriveTemplateConfig ==
    /\ pc = "template_defs"
    /\ idx \in 1..Len(template_config_defs)
    /\ LET template_config_name == template_config_defs[idx].name
           derived == Derive(template_config_name, config_dict)
           raised == HasDerivationMethod(template_config_name) /\ derived.raised
       IN  /\ fm_configs' =
                 IF HasDerivationMethod(template_config_name) /\ ~derived.raised
                    /\ derived.value # None
                 THEN Put(fm_configs, template_config_name, derived.value)
                 ELSE fm_configs
           /\ errors' = IF raised THEN Append(errors, Err("template_configs", None)) ELSE errors
           /\ visited' = idx
           /\ IF raised \/ idx = Len(template_config_defs)
              THEN pc' = "direct_name" /\ idx' = 0
              ELSE pc' = pc /\ idx' = idx + 1
    /\ UNCHANGED << Calls, Inputs, Outputs, warnings, semantic_match_list, direct_written, result >>

\* Step 4: user keys that are template config def names are copied through
RECURSIVE DirectNameLoop(_, _, _, _)
DirectNameLoop(cd, defs, st, i) ==
    IF i > Len(cd) THEN st
    ELSE LET user_config_key == cd[i].key
         IN  IF user_config_key \in DOMAIN st.fm
             THEN DirectNameLoop(cd, defs,
                                 [st EXCEPT !.sml = @ \ {user_config_key}], i + 1)
             ELSE IF user_config_key \in DefNames(defs)
             THEN DirectNameLoop(cd, defs,
                      [WriteDirect(st, user_config_key, cd[i].value, defs)
                          EXCEPT !.sml = @ \ {user_config_key}], i + 1)
             ELSE DirectNameLoop(cd, defs, st, i + 1)

DirectNameReconcile ==
    /\ pc = "direct_name"
    /\ LET st == DirectNameLoop(config_dict, template_config_defs, St, 1)
       IN  /\ fm_configs' = st.fm
           /\ semantic_match_list' = st.sml
           /\ direct_written' = st.dw
    /\ pc' = "semantic"
    /\ UNCHANGED << Calls, Inputs, Outputs, warnings, errors, visited, result, idx >>

\* SemanticMatcher.find_best_match seen from _do_semantic_matching: the matched
\* property's name, None, or "raise".  A name that is a key of fm_properties
\* matches exactly.  Otherwise every candidate is scored by calculate_similarity:
\* with sentence_transformers_available, _get_embedding reads the global
\* _semantic_model, which no code path assigns while the flag is set
\* (NameError); without it the semantic term is 0.0 and the score stays
\* below the threshold.
FindBestMatch(name, defs, sentence_transformers_available) ==
    IF name \in DefNames(defs) THEN name
    ELSE IF defs # << >> /\ sentence_transformers_available THEN "raise"
    ELSE None

\* the for-loop of _do_semantic_matching over semantic_match_list
RECURSIVE SemanticLoop(_, _, _, _, _, _)
SemanticLoop(order, cd, defs, st, available, i) ==
    IF i > Len(order) \/ st.raised THEN st
    ELSE LET config_name == order[i]
             fm_prop_name == FindBestMatch(config_name, defs, available)
         IN  IF config_name \notin UserKeySet(cd)
             THEN SemanticLoop(order, cd, defs, st, available, i + 1)
             ELSE IF fm_prop_name = "raise"
             THEN [st EXCEPT !.raised = TRUE]
             ELSE IF fm_prop_name # None /\ fm_prop_name \notin DOMAIN st.fm
             THEN SemanticLoop(order, cd, defs,
                               Write(st, fm_prop_name, UserGet(cd, config_name)),
                               available, i + 1)
             ELSE SemanticLoop(order, cd, defs, st, available, i + 1)

RaisedResult ==
    [status |-> "raised", has_name |-> FALSE, fm_is_dict |-> FALSE,
     fm_configs |-> EmptyDict, warnings |-> << >>, errors |-> << >>]

\* Step 5: semantic matching of the backlog; an exception leaves transformSMToFm
DoSemanticMatching ==
    /\ pc = "semantic"
    /\ \E available \in BOOLEAN, order \in Orders(semantic_match_list) :
          LET st == SemanticLoop(order, config_dict, template_config_defs, St, available, 1)
          IN  IF st.raised
              THEN /\ result' = RaisedResult
                   /\ pc' = "raised"
                   /\ fm_configs' = fm_configs
              ELSE /\ result' = result
                   /\ pc' = "required"
                   /\ fm_configs' = st.fm
    /\ UNCHANGED << Calls, Inputs, Outputs, warnings, errors, semantic_match_list, visited,
                    direct_written, idx >>

\* is_required of _check_required_configs
IsRequired(def) == def.required = TRUE

InSeq(x, s) == \E i \in 1..Len(s) : s[i] = x

\* str.lower() on the values the recommended-values check, the connection
\* string parsers and the redaction meet (every other string of the model is in lower case already)
Lower(s) ==
    CASE s \in {"PLAIN", "Plain", "plain"} -> "plain"
      [] s \in {"SASL", "sasl"}            -> "sasl"
      [] s \in {"OTHER", "other"}          -> "other"
      [] s = "Sales"                       -> "sales"
      [] s = "Admin"                       -> "admin"
      [] s = "S3cret"                      -> "s3cret"
      [] s = "DB.example.com"              -> "db.example.com"
      [] s = "DB.Password"                 -> "db.password"
      [] OTHER                             -> s

\* the error message of a value outside the recommended values
RecommendedError(name, value, rec) ==
    [kind |-> "recommended", key |-> name, value |-> value, recommended_values |-> rec]

\* the same check without the case-insensitive second comparison
RecommendedCheckCaseSensitive(def, st) ==
    IF def.name \in DOMAIN st.fm
    THEN LET fm_config_value == st.fm[def.name]
             recommended_values == def.recommended_values
             error_msg == RecommendedError(def.name, fm_config_value, recommended_values)
         IN  IF recommended_values # << >> /\ fm_config_value \notin Range(recommended_values)
             THEN IF ~InSeq(error_msg, st.errors)
                  THEN [st EXCEPT !.errors = Append(@, error_msg)]
                  ELSE st
             ELSE st
    ELSE st

\* the recommended-values check of one template config def
RecommendedCheck(def, st) ==
    IF def.name \in DOMAIN st.fm
    THEN LET fm_config_value == st.fm[def.name]
             recommended_values == def.recommended_values
             fm_config_value_lower == Lower(fm_config_value)
             recommended_values_lower ==
                [i \in 1..Len(recommended_values) |-> Lower(recommended_values[i])]
             error_msg == RecommendedError(def.name, fm_config_value, recommended_values)
         IN  IF recommended_values # << >> /\ fm_config_value \notin Range(recommended_values)
             THEN IF fm_config_value_lower \notin Range(recommended_values_lower)
                  THEN IF ~InSeq(error_msg, st.errors)
                       THEN [st EXCEPT !.errors = Append(@, error_msg)]
                       ELSE st
                  ELSE st
             ELSE st
    ELSE st

\* the required part of one iteration of _check_required_configs
RequiredCheck(def, st) ==
    LET error_msg == Err("required", def.name)
    IN  IF IsRequired(def) /\ def.name \notin DOMAIN st.fm
        THEN IF def.default_value # None
             THEN [st EXCEPT !.fm = Put(@, def.name, def.default_value)]
             ELSE IF ~InSeq(error_msg, st.errors)
             THEN [st EXCEPT !.errors = Append(@, error_msg)]
             ELSE st
        ELSE st

\* the for-loop of _check_required_configs on [fm, errors]
RECURSIVE CheckRequiredLoop(_, _, _)
CheckRequiredLoop(defs, st, i) ==
    IF i > Len(defs) THEN st
    ELSE IF defs[i].internal
    THEN CheckRequiredLoop(defs, st, i + 1)
    ELSE CheckRequiredLoop(defs, RecommendedCheck(defs[i], RequiredCheck(defs[i], st)), i + 1)

\* the required-config check after semantic matching
CheckRequiredConfigs ==
    /\ pc = "required"
    /\ LET st == CheckRequiredLoop(template_config_defs,
                                   [fm |-> fm_configs, errors |-> errors], 1)
       IN  /\ fm_configs' = st.fm
           /\ errors' = st.errors
    /\ pc' = "transforms"
    /\ UNCHANGED << Calls, Inputs, Outputs, warnings, semantic_match_list, visited,
                    direct_written, result, idx >>

\* [alias.strip() for alias in chain.split(",") if alias.strip()] on the
\* chains of the model; config.get(key, "") of an absent key is ""
SplitChain(chain) ==
    CASE chain = None    -> << >>
      [] chain = ""      -> << >>
      [] chain = "t1,t2" -> << "t1", "t2" >>
      [] chain = "p1,p2" -> << "p1", "p2" >>
      [] OTHER           -> << chain >>

\* ", ".join(aliases) of a non-empty list
RECURSIVE JoinAliases(_)
JoinAliases(aliases) ==
    IF Len(aliases) = 1 THEN aliases[1]
    ELSE aliases[1] \o ", " \o JoinAliases(Tail(aliases))

\* what follows "transforms.<alias>." or "predicates.<alias>." in the keys of the model
KeySuffixes == {"type", "predicate"}

\* the keys k of config with k.startswith(prefix)
KeysWithPrefix(cd, prefix) ==
    {k \in UserKeySet(cd) : \E sfx \in KeySuffixes : k = prefix \o sfx}

\* for k, v in config.items(): if k.startswith(prefix): d[k] = v
CopyKeys(cd, prefix, d) ==
    Update(d, [k \in KeysWithPrefix(cd, prefix) |-> UserGet(cd, k)])

\* the aliases of the transforms chain
TransformAliases(cd) == SplitChain(UserGet(cd, "transforms"))

\* the same loop without the collection of the predicates of disallowed transforms
RECURSIVE ClassifyTransformsNoPredicates(_, _, _, _, _)
ClassifyTransformsNoPredicates(cd, allowed_transform_types, aliases, acc, i) ==
    IF i > Len(aliases) THEN acc
    ELSE LET alias == aliases[i]
             prefix == "transforms." \o alias \o "."
             transform_type == UserGet(cd, prefix \o "type")
             Disallow(kind) ==
                [acc EXCEPT !.disallowed_aliases = Append(@, alias),
                            !.mapping_errors = Append(@, Err(kind, alias)),
                            !.disallowed = CopyKeys(cd, prefix, @)]
         IN  IF transform_type = None \/ transform_type = ""
             THEN ClassifyTransformsNoPredicates(cd, allowed_transform_types, aliases,
                                     Disallow("transform_no_type"), i + 1)
             ELSE IF transform_type \in allowed_transform_types
             THEN ClassifyTransformsNoPredicates(cd, allowed_transform_types, aliases,
                      [acc EXCEPT !.allowed_aliases = Append(@, alias),
                                  !.allowed = CopyKeys(cd, prefix, @)],
                      i + 1)
             ELSE ClassifyTransformsNoPredicates(cd, allowed_transform_types, aliases,
                                     Disallow("transform_unsupported"), i + 1)

\* the for-loop over the transform aliases
RECURSIVE ClassifyTransforms(_, _, _, _, _)
ClassifyTransforms(cd, allowed_transform_types, aliases, acc, i) ==
    IF i > Len(aliases) THEN acc
    ELSE LET alias == aliases[i]
             prefix == "transforms." \o alias \o "."
             transform_type == UserGet(cd, prefix \o "type")
             predicate == UserGet(cd, prefix \o "predicate")
             Disallow(kind) ==
                [acc EXCEPT !.disallowed_aliases = Append(@, alias),
                            !.mapping_errors = Append(@, Err(kind, alias)),
                            !.disallowed = CopyKeys(cd, prefix, @),
                            !.disallowed_predicates =
                                IF predicate # None THEN @ \cup {predicate} ELSE @]
         IN  IF transform_type = None \/ transform_type = ""
             THEN ClassifyTransforms(cd, allowed_transform_types, aliases,
                                     Disallow("transform_no_type"), i + 1)
             ELSE IF transform_type \in allowed_transform_types
             THEN ClassifyTransforms(cd, allowed_transform_types, aliases,
                      [acc EXCEPT !.allowed_aliases = Append(@, alias),
                                  !.allowed = CopyKeys(cd, prefix, @)],
                      i + 1)
             ELSE ClassifyTransforms(cd, allowed_transform_types, aliases,
                                     Disallow("transform_unsupported"), i + 1)

\* the for-loop over the predicate aliases
RECURSIVE ClassifyPredicates(_, _, _, _)
ClassifyPredicates(cd, predicate_aliases, acc, i) ==
    IF i > Len(predicate_aliases) THEN acc
    ELSE LET predicate_alias == predicate_aliases[i]
             prefix == "predicates." \o predicate_alias \o "."
         IN  IF predicate_alias \in acc.disallowed_predicates
             THEN ClassifyPredicates(cd, predicate_aliases,
                      [acc EXCEPT !.disallowed_predicate_aliases = Append(@, predicate_alias),
                                  !.mapping_errors =
                                      Append(@, Err("predicate_filtered", predicate_alias)),
                                  !.disallowed = CopyKeys(cd, prefix, @)],
                      i + 1)
             ELSE ClassifyPredicates(cd, predicate_aliases,
                      [acc EXCEPT !.allowed_predicate_aliases = Append(@, predicate_alias),
                                  !.allowed = CopyKeys(cd, prefix, @)],
                      i + 1)

\* classify_transform_configs_with_full_chain(config, allowed_transform_types)
ClassifyTransformConfigsWithFullChain(cd, allowed_transform_types) ==
    LET start == [allowed |-> EmptyDict, disallowed |-> EmptyDict, mapping_errors |-> << >>,
                  allowed_aliases |-> << >>, disallowed_aliases |-> << >>,
                  disallowed_predicates |-> {},
                  allowed_predicate_aliases |-> << >>,
                  disallowed_predicate_aliases |-> << >>]
        t == ClassifyTransforms(cd, allowed_transform_types, TransformAliases(cd), start, 1)
        acc == ClassifyPredicates(cd, SplitChain(UserGet(cd, "predicates")), t, 1)
        Chain(d, key, aliases) ==
            IF aliases # << >> THEN Put(d, key, JoinAliases(aliases)) ELSE d
    IN  [allowed |-> Chain(Chain(acc.allowed, "transforms", acc.allowed_aliases),
                           "predicates", acc.allowed_predicate_aliases),
         disallowed |-> Chain(Chain(acc.disallowed, "transforms", acc.disallowed_aliases),
                              "predicates", acc.disallowed_predicate_aliases),
         mapping_errors |-> acc.mapping_errors]

GetTransformsConfig(cd, allowed_transform_types) ==
    ClassifyTransformConfigsWithFullChain(cd, allowed_transform_types)

\* the transform types get_FM_SMT can answer with
TransformTypeSets == SUBSET {"org.apache.kafka.connect.transforms.Cast$Value"}

\* transform classification and the final result
ClassifyAndReturn ==
    /\ pc = "transforms"
    /\ \E fm_smt \in TransformTypeSets :
          LET transforms_data == GetTransformsConfig(config_dict, fm_smt)
          IN  /\ fm_configs' = Update(fm_configs, transforms_data.allowed)
              /\ errors' = errors \o transforms_data.mapping_errors
    /\ result' = [status |-> "returned", has_name |-> TRUE, fm_is_dict |-> TRUE,
                  fm_configs |-> fm_configs', warnings |-> warnings, errors |-> errors']
    /\ pc' = "returned"
    /\ UNCHANGED << Calls, Inputs, Outputs, warnings, semantic_match_list, visited,
                    direct_written, idx >>

(***************************************************************************)
(* process_connectors and the two write_fm_configs_to_file.                *)
(***************************************************************************)
\* the entry stored under the connector's name; an exception of
\* transformSMToFm is logged and the connector is left out
StoreResult ==
    /\ pc \in {"returned", "raised"}
    /\ fm_out' = IF result.status = "returned"
                 THEN [stored |-> TRUE, config_is_dict |-> result.fm_is_dict,
                       config |-> result.fm_configs,
                       mapping_errors |-> result.errors,
                       mapping_warnings |-> result.warnings]
                 ELSE NoEntry
    /\ pc' = "stored"
    /\ UNCHANGED << Calls, Inputs, Locals, result, idx, caller, bucket >>

\* the keys of an entry of process_connectors
EntryKeys == {"name", "sm_config", "config", "mapping_errors", "mapping_warnings"}

\* fm_config.get(key, []) for the list-valued keys
EntryGetList(entry, key) ==
    IF key \notin EntryKeys THEN << >>
    ELSE IF key = "mapping_errors" THEN entry.mapping_errors
    ELSE IF key = "mapping_warnings" THEN entry.mapping_warnings
    ELSE << >>

\* main.write_fm_configs_to_file
WriteMain ==
    /\ pc = "stored"
    /\ caller' = "main"
    /\ bucket' = IF ~fm_out.stored THEN "none"
                 ELSE IF EntryGetList(fm_out, "errors") # << >> THEN "unsuccessful"
                 ELSE "successful"
    /\ pc' = "written"
    /\ UNCHANGED << Calls, Inputs, Locals, result, idx, fm_out >>

\* discovery_script.write_fm_configs_to_file
WriteDiscovery ==
    /\ pc = "stored"
    /\ caller' = "discovery_script"
    /\ bucket' = IF ~fm_out.stored THEN "none"
                 ELSE IF EntryGetList(fm_out, "mapping_errors") # << >> THEN "unsuccessful"
                 ELSE "successful"
    /\ pc' = "written"
    /\ UNCHANGED << Calls, Inputs, Locals, result, idx, fm_out >>

Next ==
    \/ ValidateInput
    \/ ExtractTemplate
    \/ InitFmConfigs
    \/ ProcessUserConfig
    \/ DeriveTemplateConfig
    \/ DirectNameReconcile
    \/ DoSemanticMatching
    \/ CheckRequiredConfigs
    \/ ClassifyAndReturn
    \/ StoreResult
    \/ WriteMain
    \/ WriteDiscovery

Spec == Init /\ [][Next]_vars

(***************************************************************************)
(* Properties of the mapping.                                              *)
(***************************************************************************)
\* transformSMToFm has ended, by a return or by an exception
Ended == pc \in {"returned", "raised", "stored", "written"}

\* the mapping went through every step up to the final result
FullRun == result.status = "returned" /\ result.has_name

\* the number of entries of a list that mention key
RECURSIVE CountKey(_, _)
CountKey(s, key) ==
    IF s = << >> THEN 0
    ELSE (IF Head(s).key = key THEN 1 ELSE 0) + CountKey(Tail(s), key)

\* C1: a key of fm_configs set by a direct name match keeps, in every later
\* step and in the returned result, the value first written under it.
C1_DirectMatchKept ==
    /\ \A k \in DOMAIN direct_written :
          k \in DOMAIN fm_configs /\ fm_configs[k] = direct_written[k]
    /\ FullRun =>
          \A k \in DOMAIN direct_written :
             k \in DOMAIN result.fm_configs /\ result.fm_configs[k] = direct_written[k]

\* C2: an exception raised for one property of a pass is caught for that
\* property alone and tagged with its name, and the remaining properties of
\* the pass are still processed: when the template-defs pass is over, every
\* template config def has been visited and every error of the two passes
\* carries a property name.
C2_PerPropertyExceptions ==
    pc \in {"direct_name", "semantic", "required", "transforms"} =>
       /\ visited = Len(template_config_defs)
       /\ \A i \in 1..Len(errors) :
             errors[i].kind \in {"user_configs", "template_configs"} => errors[i].key # None

\* C3: a connector with a config always gets a result from transformSMToFm
\* and an entry in the output of process_connectors; no exception ends the
\* mapping.
C3_AlwaysMappingResult ==
    input_kind = "dict" /\ Ended =>
       /\ result.status = "returned"
       /\ pc \in {"stored", "written"} => fm_out.stored

\* C4: a step of the template-defs pass writes a derived value only under a
\* key that is not yet set; the keys already present keep their values.
C4_DerivationWritesOnlyIfUnset ==
    [][pc = "template_defs" =>
          \A k \in DOMAIN fm_configs :
             k \in DOMAIN fm_configs' /\ fm_configs'[k] = fm_configs[k]]_vars

\* the step about to be taken interprets a `value` rule with placeholders
PlaceholderStep ==
    /\ pc = "connector_defs"
    /\ idx \in 1..Len(config_dict)
    /\ LET key == config_dict[idx].key
           r == FindRuleIndex(key, connector_config_defs)
       IN  /\ ~StartsWith(key, "connector.class") /\ ~StartsWith(key, "name")
           /\ ~StartsWith(key, "transforms") /\ ~StartsWith(key, "predicates")
           /\ r # 0
           /\ connector_config_defs[r].value.type = "str"
           /\ ~connector_config_defs[r].value.internal
           /\ HasPlaceholder(connector_config_defs[r].value)

\* C5: resolving the placeholders of a `value` rule never changes the value
\* of a key already present in fm_configs; it only adds absent keys.
C5_PlaceholderKeepsPresentKeys ==
    [][PlaceholderStep =>
          \A k \in DOMAIN fm_configs :
             k \in DOMAIN fm_configs' /\ fm_configs'[k] = fm_configs[k]]_vars

\* C6: a user config without connector.class ends the mapping with an error
\* and the minimal output: fm_configs is a mapping with the keys
\* connector.class and name only.
C6_MissingClassMinimalOutput ==
    (/\ Ended
     /\ input_kind = "dict" /\ config_dict # << >>
     /\ "connector.class" \notin UserKeySet(config_dict)) =>
       /\ result.status = "returned"
       /\ result.errors # << >>
       /\ result.fm_is_dict
       /\ DOMAIN result.fm_configs = {"connector.class", "name"}

\* C7: with connector.class in the user config, the mapping ends before its
\* last step only for a structural error of the template (template missing,
\* `templates` key missing or of the wrong type).
C7_OnlyStructuralShortCircuit ==
    (/\ Ended
     /\ input_kind = "dict"
     /\ "connector.class" \in UserKeySet(config_dict)
     /\ fm_template.shape = "ok") => FullRun

\* the keys fm_configs may carry for the template of the run
DeclaredKeys ==
    DefNames(template_config_defs)
       \cup {k \in UserKeySet(config_dict) :
                StartsWith(k, "transforms") \/ StartsWith(k, "predicates")}
       \cup {"connector.class", "name", "tasks.max"}

\* C8: every key of fm_configs in a result is a declared config def name, a
\* transform or predicate key, or one of connector.class, name, tasks.max.
C8_KeysAreDeclared ==
    result.status = "returned" => DOMAIN result.fm_configs \subseteq DeclaredKeys

\* x is required, not internal, has no default, is absent from the user
\* config and was resolved by no step
UnresolvedRequired(x) ==
    /\ \E i \in 1..Len(template_config_defs) :
          /\ template_config_defs[i].name = x
          /\ IsRequired(template_config_defs[i])
          /\ ~template_config_defs[i].internal
    /\ \A i \in 1..Len(template_config_defs) :
          template_config_defs[i].name = x =>
             /\ template_config_defs[i].default_value = None
             /\ ~template_config_defs[i].internal
    /\ x \notin UserKeySet(config_dict)
    /\ x \notin DOMAIN fm_configs

\* C9: when the mapping has ended, the final errors list holds exactly one
\* error mentioning each required, non-internal config def without default
\* that is absent from the user config and was not resolved.
C9_RequiredErrorOnce ==
    Ended =>
       \A x \in DefNames(template_config_defs) :
          UnresolvedRequired(x) =>
             result.status = "returned" /\ CountKey(result.errors, x) = 1

\* C10: a caller puts a connector whose result has errors in the unsuccessful
\* bucket, and only a connector without errors in the successful one.
C10_BucketByErrorList ==
    pc = "written" /\ fm_out.stored =>
       bucket = (IF result.errors # << >> THEN "unsuccessful" ELSE "successful")

(***************************************************************************)
(* Single calls of the functions of the engine.  A behaviour of FnSpec is  *)
(* one call: Init draws the function and its arguments, the one step       *)
(* applies the function as the code computes it.                           *)
(***************************************************************************)
\* bound of the config def lists handed to a single call
MaxCallDefs == 2

\* the variables of process_connectors while a single function is called
Main == << Inputs, Locals, Outputs, pc, idx, result >>

Idle ==
    /\ pc = "idle"
    /\ idx = 0
    /\ input_kind = "none"
    /\ config_dict = << >>
    /\ fm_template = [shape |-> "none", has_template_id |-> FALSE]
    /\ template_config_defs = << >>
    /\ connector_config_defs = << >>
    /\ fm_configs = EmptyDict
    /\ warnings = << >>
    /\ errors = << >>
    /\ semantic_match_list = {}
    /\ visited = 0
    /\ direct_written = EmptyDict
    /\ result = NoResult
    /\ fm_out = NoEntry
    /\ caller = "none"
    /\ bucket = "none"

\* a call is set up and not yet made
Pending(name) ==
    /\ fn = name
    /\ ret = << >>
    /\ called = FALSE

\* the step of a call: ret receives the function's value
Return(name, value) ==
    /\ fn = name
    /\ ~called
    /\ ret' = value
    /\ called' = TRUE
    /\ UNCHANGED << fn, arg, Main, Poll >>

\* ---- _check_required_configs(fm_configs, template_config_defs, errors) ----
RecommendedValues == << "PLAIN", "SASL" >>

RecommendedDefChoices ==
    { DefRec("authentication.method", req, int, dflt, rec) :
         req \in BOOLEAN, int \in BOOLEAN, dflt \in {None, "Plain", "OTHER"},
         rec \in {<< >>, RecommendedValues} }

InitCheckRequired ==
    /\ Pending("_check_required_configs")
    /\ arg \in [fm_configs : {EmptyDict} \cup
                             {Put(EmptyDict, "authentication.method", v) :
                                 v \in {"PLAIN", "plain", "OTHER"}},
                template_config_defs :
                    UNION {[1..n -> RecommendedDefChoices] : n \in 1..MaxCallDefs},
                errors : {<< >>, << Err("template_configs", None) >>}]

CallCheckRequired ==
    Return("_check_required_configs",
           CheckRequiredLoop(arg.template_config_defs,
                             [fm |-> arg.fm_configs, errors |-> arg.errors], 1))

\* ---- classify_transform_configs_with_full_chain(config, allowed_transform_types) ----
CastType == "org.apache.kafka.connect.transforms.Cast$Value"
CustomType == "com.example.transforms.Custom"
PredicateType == "org.apache.kafka.connect.transforms.predicates.TopicNameMatches"

\* the entry of a key the config has, nothing for a key it lacks
Opt(k, v) == IF v = None THEN << >> ELSE << Entry(k, v) >>

\* connector configs with a transforms chain over t1 and t2, keys of t1, t2
\* and of an alias t3 no chain names, and a predicates chain over p1 and p2
ClassifyConfigs ==
    { Opt("transforms", chain)
        \o Opt("transforms.t1.type", ty1) \o Opt("transforms.t1.predicate", pr1)
        \o Opt("transforms.t2.type", ty2) \o Opt("transforms.t2.predicate", pr2)
        \o Opt("transforms.t3.type", ty3)
        \o Opt("predicates", pchain)
        \o Opt("predicates.p1.type", pt1)
        \o (IF pchain = "p1,p2" THEN << Entry("predicates.p2.type", PredicateType) >>
            ELSE << >>) :
         chain \in {None, "t1", "t1,t2"},
         ty1 \in {None, CastType, CustomType},
         ty2 \in {None, CastType, CustomType},
         ty3 \in {None, CastType},
         pr1 \in {None, "p1"},
         pr2 \in {None, "p1"},
         pchain \in {None, "p1", "p1,p2"},
         pt1 \in {None, PredicateType} }

InitClassify ==
    /\ Pending("classify_transform_configs_with_full_chain")
    /\ arg \in [config : ClassifyConfigs, allowed_transform_types : TransformTypeSets]

CallClassify ==
    Return("classify_transform_configs_with_full_chain",
           ClassifyTransformConfigsWithFullChain(arg.config, arg.allowed_transform_types))

\* ---- Step 3 for one template config def: the registry lookup and the call
\* ---- derivation_method(config_dict, fm_configs, template_config_defs, name)
RedisUrl == "redis://cache.example.com:7002/0"
RedisHostsWithPort == "cache.example.com:7001"
RedisHostsNoPort == "cache.example.com"

\* hosts_value.split(':')[1], cut at a '/'; None when hosts_value has no ':'
HostsPort(hosts_value) ==
    CASE hosts_value = RedisHostsWithPort -> "7001"
      [] OTHER                            -> None

\* the port of a url holding 'redis://host:port'; None for any other url
RedisUrlPort(url) ==
    CASE url = RedisUrl -> "7002"
      [] OTHER          -> None

\* for config_key in keys: if config_key in user_configs: return user_configs[config_key]
RECURSIVE FirstPresent(_, _, _)
FirstPresent(cd, keys, i) ==
    IF i > Len(keys) THEN None
    ELSE IF keys[i] \in UserKeySet(cd) THEN UserGet(cd, keys[i])
    ELSE FirstPresent(cd, keys, i + 1)

\* the loop over the url keys: the first url with a redis port returns it
RECURSIVE FirstRedisUrlPort(_, _, _)
FirstRedisUrlPort(cd, keys, i) ==
    IF i > Len(keys) THEN None
    ELSE IF keys[i] \in UserKeySet(cd) /\ RedisUrlPort(UserGet(cd, keys[i])) # None
    THEN RedisUrlPort(UserGet(cd, keys[i]))
    ELSE FirstRedisUrlPort(cd, keys, i + 1)

\* _get_template_default_value
RECURSIVE GetTemplateDefaultValue(_, _, _)
GetTemplateDefaultValue(defs, config_name, i) ==
    IF i > Len(defs) THEN None
    ELSE IF defs[i].name = config_name /\ defs[i].default_value # None
    THEN defs[i].default_value
    ELSE GetTemplateDefaultValue(defs, config_name, i + 1)

\* _resolve_template_default on the defaults of the model
ResolveTemplateDefault(template_default, fm) ==
    IF template_default = "${db.name}" /\ "db.name" \in DOMAIN fm
    THEN fm["db.name"]
    ELSE template_default

\* _derive_redis_portnumber
DeriveRedisPortnumber(cd, fm, defs) ==
    LET port_key == FirstPresent(cd, << "redis.port", "redis.server.port", "port",
                                        "server.port" >>, 1)
        url_port == FirstRedisUrlPort(cd, << "connection.url", "connection.uri",
                                             "redis.connection.url" >>, 1)
        template_default == GetTemplateDefaultValue(defs, "redis.portnumber", 1)
    IN  IF "redis.portnumber" \in UserKeySet(cd) THEN UserGet(cd, "redis.portnumber")
        ELSE IF port_key # None THEN port_key
        ELSE IF "redis.hosts" \in UserKeySet(cd) /\ HostsPort(UserGet(cd, "redis.hosts")) # None
        THEN HostsPort(UserGet(cd, "redis.hosts"))
        ELSE IF url_port # None THEN url_port
        ELSE IF defs # << >> /\ template_default # None /\ template_default # ""
        THEN ResolveTemplateDefault(template_default, fm)
        ELSE "6379"

\* the method the registry holds for the name, called with the four arguments
DerivationMethod(name, cd, fm, defs) ==
    CASE name = "redis.portnumber" ->
            [raised |-> FALSE, value |-> DeriveRedisPortnumber(cd, fm, defs)]
      [] OTHER -> Derive(name, cd)

\* the body of the Step 3 loop for one template config def
DerivationStep(template_config_name, cd, fm, defs) ==
    IF ~HasDerivationMethod(template_config_name)
    THEN [fm_configs |-> fm, raised |-> FALSE]
    ELSE LET derived == DerivationMethod(template_config_name, cd, fm, defs)
         IN  IF derived.raised THEN [fm_configs |-> fm, raised |-> TRUE]
             ELSE IF derived.value # None
             THEN [fm_configs |-> Put(fm, template_config_name, derived.value),
                   raised |-> FALSE]
             ELSE [fm_configs |-> fm, raised |-> FALSE]

DerivedNames ==
    {"db.name", "redis.portnumber", "authentication.method", "csfle.enabled",
     "csfle.onFailure"}

DerivationConfigs ==
    { Opt("connection.url", url) \o Opt("db.name", db) \o Opt("redis.portnumber", rp)
        \o Opt("redis.hosts", rh) \o Opt("security.protocol", sp) :
         url \in {None, JdbcUrlWithDb, JdbcUrlNoDb, RedisUrl},
         db \in {None, "v1"},
         rp \in {None, "7000"},
         rh \in {None, RedisHostsWithPort, RedisHostsNoPort},
         sp \in {None, "SASL_PLAINTEXT"} }

InitDerivation ==
    /\ Pending("derivation_method")
    /\ arg \in [config_dict : DerivationConfigs,
                fm_configs : {EmptyDict, Put(EmptyDict, "db.name", "v2")},
                template_config_defs :
                    { << Def(n, FALSE, FALSE, dflt) >> :
                         n \in DerivedNames, dflt \in {None, "1234", "${db.name}"} }]

CallDerivation ==
    Return("derivation_method",
           DerivationStep(arg.template_config_defs[1].name, arg.config_dict,
                          arg.fm_configs, arg.template_config_defs))

\* ---- _process_user_config_in_connector_config_def(connector_config_def,
\* ---- user_config_value, user_configs, template_config_defs, fm_configs, ...)
TopicNameStrategyClass == "io.confluent.kafka.serializers.subject.TopicNameStrategy"

InitRule ==
    /\ Pending("_process_user_config_in_connector_config_def")
    /\ \E v \in {"v1", "v2", TopicNameStrategyClass}, t \in {None, "v1"} :
          arg \in [connector_config_def : RuleChoices("topic"),
                   user_config_value : {v},
                   user_configs : {<< Entry("topic", v) >> \o Opt("table", t)},
                   template_config_defs :
                       UNION {[1..n -> DefChoices] : n \in 0..MaxCallDefs},
                   fm_configs : {EmptyDict, Put(EmptyDict, "table", "v0")}]

\* the keys the rule's value references among the template config defs of the call
CallReferencedKeys ==
    IF arg.connector_config_def.value.type = "str"
    THEN FindReferencedKeys(arg.connector_config_def.value, DefNames(arg.template_config_defs))
    ELSE {}

CallRule ==
    /\ fn = "_process_user_config_in_connector_config_def"
    /\ \E order \in Orders(CallReferencedKeys) :
          Return("_process_user_config_in_connector_config_def",
                 ProcessUserConfigInConnectorConfigDef(
                     arg.connector_config_def, arg.user_config_value, arg.user_configs,
                     arg.template_config_defs,
                     [fm |-> arg.fm_configs, w |-> << >>, sml |-> {}, dw |-> EmptyDict,
                      raised |-> FALSE],
                     order))

\* ---- _parse_jdbc_url(url) of connector_comparator.py and parse_jdbc_url(url)
\* ---- of database_utils.py
OracleMarker == "@(DESCRIPTION="
UpperDescriptor ==
    "(ADDRESS=(PROTOCOL=TCPS)(HOST=Ora.example.com)(PORT=2484))(CONNECT_DATA=(SERVICE_NAME=ORCL)))"
LowerDescriptor ==
    "(address=(protocol=tcps)(host=Ora.example.com)(port=2484))(connect_data=(service_name=ORCL)))"

\* a url of the model: its text, the spelling of the Oracle marker it holds
\* ("" when it holds none) and whether its descriptor keywords are upper case
OracleUrl(marker, upper) ==
    [text |-> "jdbc:oracle:thin:" \o marker \o (IF upper THEN UpperDescriptor ELSE LowerDescriptor),
     marker |-> marker, upper_keywords |-> upper]

StandardUrl(text) == [text |-> text, marker |-> "", upper_keywords |-> FALSE]

JdbcUrls ==
    { OracleUrl(marker, upper) :
         marker \in {OracleMarker, "@(description=", "@(Description=", ""},
         upper \in BOOLEAN }
      \cup { StandardUrl(JdbcUrlWithDb), StandardUrl(JdbcUrlNoDb),
              StandardUrl(JdbcUrlWithCredentials), StandardUrl(JdbcUrlEmptyParams) }

\* the Oracle branch: the regexes search original_url, with re.IGNORECASE in
\* database_utils.py and without it in connector_comparator.py
OracleInfo(url, ignorecase) ==
    IF url.upper_keywords
    THEN [k \in {"host", "port", "db.connection.type", "db.name"} |->
             CASE k = "host" -> "Ora.example.com"
               [] k = "port" -> "2484"
               [] k = "db.connection.type" -> "SERVICE_NAME"
               [] k = "db.name" -> "ORCL"]
    ELSE IF ignorecase
    THEN [k \in {"host", "port", "db.connection.type", "db.name"} |->
             CASE k = "host" -> "Ora.example.com"
               [] k = "port" -> "2484"
               [] k = "db.connection.type" -> "service_name"
               [] k = "db.name" -> "ORCL"]
    ELSE EmptyDict

\* the pieces of a standard url as they appear in it: None where the url has
\* no such piece, "" where it has the parameter with nothing after '='
UrlParts(text) ==
    CASE text = JdbcUrlWithDb ->
            [host |-> "db.example.com", port |-> "3306", db |-> "Sales",
             user |-> None, password |-> None]
      [] text = JdbcUrlNoDb ->
            [host |-> "db.example.com", port |-> "3306", db |-> None,
             user |-> None, password |-> None]
      [] text = JdbcUrlWithCredentials ->
            [host |-> "db.example.com", port |-> "3306", db |-> "Sales",
             user |-> "Admin", password |-> "S3cret"]
      [] text = JdbcUrlEmptyParams ->
            [host |-> "DB.example.com", port |-> None, db |-> None,
             user |-> "", password |-> ""]

\* connection_info[key] = match.group(1): every group is '[^...]+', so it
\* matches a non-empty piece only, and it is matched in url = url.lower()
PutGroup(info, key, piece) ==
    IF piece # None /\ piece # "" THEN Put(info, key, Lower(piece)) ELSE info

\* the standard branch: the regexes search the lower-cased url and need "://"
StandardInfo(url) ==
    IF IsJdbc(url.text)
    THEN LET parts == UrlParts(url.text)
             host == PutGroup(EmptyDict, "host", parts.host)
             port == PutGroup(host, "port", parts.port)
             db == PutGroup(port, "db.name", parts.db)
             user == PutGroup(db, "user", parts.user)
         IN  PutGroup(user, "password", parts.password)
    ELSE EmptyDict

\* parse_jdbc_url: '@(DESCRIPTION=' in original_url selects the Oracle branch
ParseJdbcUrl(url, ignorecase) ==
    IF url.marker = OracleMarker
    THEN [mode |-> "oracle", connection_info |-> OracleInfo(url, ignorecase)]
    ELSE [mode |-> "standard", connection_info |-> StandardInfo(url)]

InitParse ==
    /\ fn \in {"_parse_jdbc_url", "parse_jdbc_url"}
    /\ ret = << >>
    /\ called = FALSE
    /\ arg \in [url : JdbcUrls]

CallParse ==
    \/ Return("_parse_jdbc_url", ParseJdbcUrl(arg.url, FALSE))
    \/ Return("parse_jdbc_url", ParseJdbcUrl(arg.url, TRUE))


\* ---- semantic_matcher.py: calculate_similarity(sm_property, fm_property) and
\* ---- find_best_match(sm_property, fm_properties, semantic_threshold).
\* A property name is a sequence of characters; a score is an integer number
\* of ten-thousandths, a cosine similarity a number of thousandths.
MaxCandidates == 2

PropertyNames ==
    { << "p", "o", "r", "t" >>, << "P", "o", "r", "t" >>, << "p", "o", "s", "t" >>,
      << "n", "a", "m", "e" >> }

\* str.lower() of a name
LowerChars(name) == [i \in 1..Len(name) |-> IF name[i] = "P" THEN "p" ELSE name[i]]

\* the longest common subsequence of the first i characters of a and the first j of b
RECURSIVE LcsLen(_, _, _, _)
LcsLen(a, b, i, j) ==
    IF i = 0 \/ j = 0 THEN 0
    ELSE IF a[i] = b[j] THEN 1 + LcsLen(a, b, i - 1, j - 1)
    ELSE LET x == LcsLen(a, b, i - 1, j)
             y == LcsLen(a, b, i, j - 1)
         IN  IF x >= y THEN x ELSE y

\* fuzz.ratio(a, b): the normalised Indel similarity, 100 * 2 * LCS / (len(a) + len(b));
\* exact for the names of the model, which have four characters each
FuzzRatio(a, b) ==
    IF Len(a) + Len(b) = 0 THEN 100
    ELSE (200 * LcsLen(a, b, Len(a), Len(b))) \div (Len(a) + Len(b))

\* the module globals after SemanticMatcher(): `available` is
\* sentence_transformers_available, `bound` whether _semantic_model has been
\* assigned.  The import sets the flag and binds semantic_model, another name;
\* initialize_semantic_model returns at once when the flag is set and binds
\* _semantic_model only when it is not, never setting the flag.
Backends ==
    { [available |-> TRUE, bound |-> FALSE],
      [available |-> FALSE, bound |-> TRUE],
      [available |-> FALSE, bound |-> FALSE] }

\* _get_embedding(text, cache): "none", "raise" (NameError on the unbound
\* global) or "vector"; the text always holds the two separating blanks
GetEmbedding(backend) ==
    IF ~backend.available THEN "none"
    ELSE IF ~backend.bound THEN "raise"
    ELSE "vector"

\* a score with 0.3 * string_score replaced by the whole string score
CalculateSimilarityRenormalized(sm_name, fm_name, cosine, backend) ==
    [raised |-> FALSE, score |-> 100 * FuzzRatio(LowerChars(sm_name), LowerChars(fm_name))]

\* calculate_similarity: 0.7 * semantic_score + 0.3 * string_score
CalculateSimilarity(sm_name, fm_name, cosine, backend) ==
    LET sm_embedding == GetEmbedding(backend)
        fm_embedding == GetEmbedding(backend)
        semantic_score == IF sm_embedding = "vector" /\ fm_embedding = "vector"
                          THEN cosine ELSE 0
        string_score == FuzzRatio(LowerChars(sm_name), LowerChars(fm_name))
    IN  IF sm_embedding = "raise" \/ fm_embedding = "raise"
        THEN [raised |-> TRUE, score |-> 0]
        ELSE [raised |-> FALSE, score |-> 7 * semantic_score + 30 * string_score]

\* the for-loop of find_best_match over fm_properties.items()
RECURSIVE BestMatchLoop(_, _, _, _, _)
BestMatchLoop(sm_name, fm_properties, backend, best, i) ==
    IF i > Len(fm_properties) \/ best.raised THEN best
    ELSE IF fm_properties[i].direct_match
    THEN BestMatchLoop(sm_name, fm_properties, backend, best, i + 1)
    ELSE LET similarity == CalculateSimilarity(sm_name, fm_properties[i].name,
                                               fm_properties[i].cosine, backend)
         IN  IF similarity.raised
             THEN [best EXCEPT !.raised = TRUE]
             ELSE IF similarity.score > best.best_score
             THEN BestMatchLoop(sm_name, fm_properties, backend,
                                [raised |-> FALSE, best_score |-> similarity.score,
                                 best_match |-> i], i + 1)
             ELSE BestMatchLoop(sm_name, fm_properties, backend, best, i + 1)

NoMatch == [raised |-> FALSE, matched |-> 0, similarity_score |-> 0, match_type |-> "none"]

\* find_best_match without its first step
FindBestMatchNoExactStep(sm_name, fm_properties, semantic_threshold, backend) ==
    LET best == BestMatchLoop(sm_name, fm_properties, backend,
                              [raised |-> FALSE, best_score |-> 0, best_match |-> 0], 1)
    IN  IF best.raised THEN [NoMatch EXCEPT !.raised = TRUE]
        ELSE IF best.best_match # 0 /\ best.best_score >= semantic_threshold
        THEN [raised |-> FALSE, matched |-> best.best_match,
              similarity_score |-> best.best_score, match_type |-> "semantic"]
        ELSE NoMatch

\* find_best_match: `matched` is the position of the returned FM property
FindBestMatchResult(sm_name, fm_properties, semantic_threshold, backend) ==
    IF \E i \in 1..Len(fm_properties) : fm_properties[i].name = sm_name
    THEN [raised |-> FALSE,
          matched |-> CHOOSE i \in 1..Len(fm_properties) : fm_properties[i].name = sm_name,
          similarity_score |-> 10000, match_type |-> "exact"]
    ELSE FindBestMatchNoExactStep(sm_name, fm_properties, semantic_threshold, backend)

Cosines == {0 - 500, 999, 1000}

\* fm_properties: a dict in insertion order, no name twice
FmProperties ==
    { fp \in UNION { [1..n -> [name : PropertyNames, direct_match : BOOLEAN,
                               cosine : Cosines]] : n \in 0..MaxCandidates } :
         \A i, j \in 1..Len(fp) : i # j => fp[i].name # fp[j].name }

InitSimilarity ==
    /\ Pending("calculate_similarity")
    /\ arg \in [sm_name : PropertyNames, fm_name : PropertyNames, cosine : Cosines,
                backend : Backends]

CallSimilarity ==
    Return("calculate_similarity",
           CalculateSimilarity(arg.sm_name, arg.fm_name, arg.cosine, arg.backend))

InitFindBestMatch ==
    /\ Pending("find_best_match")
    /\ arg \in [sm_name : PropertyNames, fm_properties : FmProperties,
                semantic_threshold : {7000}, backend : Backends]

CallFindBestMatch ==
    Return("find_best_match",
           FindBestMatchResult(arg.sm_name, arg.fm_properties, arg.semantic_threshold,
                               arg.backend))


\* ---- _parse_mongodb_connection_string(url) of connector_comparator.py and
\* ---- parse_mongodb_connection_string(url) of database_utils.py
\* a connection string of the model, by its pieces: scheme, then user, ':' and
\* password, '@' (each only when the string has it), host, '/' and database
MongoUrls ==
    { u \in [scheme : {"mongodb+srv://", "mongodb://", ""}, at : BOOLEAN, colon : BOOLEAN,
             user : {"", "Admin"}, password : {"", "S3cret"},
             host : {"", "DB.example.com"}, slash : BOOLEAN, database : {"", "Sales"}] :
         /\ ~u.at => (~u.colon /\ u.user = "")
         /\ ~u.colon => u.password = ""
         /\ ~u.slash => u.database = "" }

\* if ':' in credentials_part: user, password = credentials_part.split(':', 1)
MongoCredentials(url, info) ==
    IF url.colon
    THEN Put(Put(info, "user", Lower(url.user)), "password", Lower(url.password))
    ELSE info

\* host = host_part.split('/')[0].split('?')[0]; if '/' in host_part: database
MongoHostAndDatabase(url, info) ==
    LET with_host == Put(info, "host", Lower(url.host))
    IN  IF url.slash THEN Put(with_host, "database", Lower(url.database)) ELSE with_host

\* url = url.lower() first; the mongodb+srv branch has no else for a string
\* without '@'
ParseMongodbConnectionString(url) ==
    IF url.scheme = ""
    THEN EmptyDict
    ELSE IF url.at
    THEN MongoHostAndDatabase(url, MongoCredentials(url, EmptyDict))
    ELSE IF url.scheme = "mongodb://"
    THEN MongoHostAndDatabase(url, EmptyDict)
    ELSE EmptyDict

InitParseMongo ==
    /\ fn \in {"_parse_mongodb_connection_string", "parse_mongodb_connection_string"}
    /\ ret = << >>
    /\ called = FALSE
    /\ arg \in [url : MongoUrls]

CallParseMongo ==
    \/ Return("_parse_mongodb_connection_string",
              [mode |-> "mongodb", connection_info |-> ParseMongodbConnectionString(arg.url)])
    \/ Return("parse_mongodb_connection_string",
              [mode |-> "mongodb", connection_info |-> ParseMongodbConnectionString(arg.url)])


\* ---- config_discovery.py: _sensitive_config(key), _redact_sensitive_info(config)
\* ---- and the redaction step of _get_connector_configs(worker_url)
MaxDictKeys == 2
MaxItems == 1

SecretText == "S3cret"
Mask == "********"

\* a JSON value of a connector config: a string, a list or a mapping
Str(text) == [type |-> "str", text |-> text]
List(items) == [type |-> "list", items |-> items]
Dict(entries) == [type |-> "dict", entries |-> entries]

ConfigKeys == {"DB.Password", "ssl.keystore.key", "topic"}

DictsOver(values) ==
    UNION { [keys -> values] : keys \in {s \in SUBSET ConfigKeys : Cardinality(s) <= MaxDictKeys} }

ListsOver(values) == UNION { [1..n -> values] : n \in 0..MaxItems }

Strings == {Str(SecretText), Str("orders")}
InnerDicts == {Dict(entries) : entries \in DictsOver(Strings)}
ConfigValues ==
    Strings \cup InnerDicts \cup {List(items) : items \in ListsOver(Strings \cup InnerDicts)}
ConnectorConfigs == DictsOver(ConfigValues)

\* self.all_sensitive_configs (the keys of the model that are in it) and
\* self.sensitive_patterns
AllSensitiveConfigs == {"ssl.keystore.key"}
SensitivePatterns == {"password", "token", "secret", "credential"}

\* _sensitive_config(key): key.lower() is in the set or contains a pattern
SensitiveConfig(key) ==
    LET key_lower == Lower(key)
    IN  \/ key_lower \in AllSensitiveConfigs
        \/ \E pattern \in SensitivePatterns, before \in {"", "db."} :
              key_lower = before \o pattern

\* redact_dict(d): a mapping is redacted in turn, a list keeps every item that
\* is not a mapping, and only a value of another type is tested for its key
RECURSIVE RedactDict(_)
RedactDict(d) ==
    [k \in DOMAIN d |->
        LET v == d[k]
        IN  IF v.type = "dict"
            THEN Dict(RedactDict(v.entries))
            ELSE IF v.type = "list"
            THEN List([i \in 1..Len(v.items) |->
                         IF v.items[i].type = "dict"
                         THEN Dict(RedactDict(v.items[i].entries))
                         ELSE v.items[i]])
            ELSE IF SensitiveConfig(k)
            THEN Str(Mask)
            ELSE v]

RedactSensitiveInfo(config) == RedactDict(config)

InitGetConnectorConfigs ==
    /\ Pending("_get_connector_configs")
    /\ arg \in [redact : BOOLEAN, config : ConnectorConfigs]

\* if self.redact: config = self._redact_sensitive_info(config)
CallGetConnectorConfigs ==
    Return("_get_connector_configs",
           [config |-> IF arg.redact THEN RedactSensitiveInfo(arg.config) ELSE arg.config])

FnInit ==
    Idle /\ NoPoll /\ (   InitCheckRequired
                       \/ InitClassify
                       \/ InitDerivation
                       \/ InitRule
                       \/ InitParse
                       \/ InitSimilarity
                       \/ InitFindBestMatch
                       \/ InitParseMongo
                       \/ InitGetConnectorConfigs)

FnNext ==
    \/ CallCheckRequired
    \/ CallClassify
    \/ CallDerivation
    \/ CallRule
    \/ CallParse
    \/ CallSimilarity
    \/ CallFindBestMatch
    \/ CallParseMongo
    \/ CallGetConnectorConfigs

FnSpec == FnInit /\ [][FnNext]_vars

(***************************************************************************)
(* connect_validator.py: poll_validation_status, as validate_with_         *)
(* confluent_cloud calls it. The clock counts whole seconds.               *)
(***************************************************************************)
MaxWaitTime == 7
MaxJitter == 1

\* requests.get(..., timeout=3) and time.sleep(3)
RequestTimeout == 3
SleepSeconds == 3

\* what a status request meets: requests.get raises RequestException, or it
\* answers and response.json() or the reading of the body raises, or the
\* answer is read: its status code, whether the body has 'status', its phase
Answer(status_code, has_status, phase) ==
    [raises |-> "none", status_code |-> status_code, has_status |-> has_status, phase |-> phase]

Failure(exception) ==
    [raises |-> exception, status_code |-> IF exception = "ValueError" THEN 200 ELSE 0,
     has_status |-> FALSE, phase |-> None]

Phases == {"COMPLETED", "FAILED", "VALIDATING", "PROVISIONING"}

Responses ==
    { Answer(200, TRUE, phase) : phase \in Phases \cup {None} }
      \cup { Answer(200, FALSE, None), Answer(404, FALSE, None), Answer(500, FALSE, None) }
      \cup { Failure("RequestException"), Failure("ValueError") }

\* the dict poll_validation_status returns
PollResult(final_status, is_valid, attempts) ==
    [final_status |-> final_status, is_valid |-> is_valid, poll_attempts |-> attempts]

\* the timeout check with > in place of >=
TimedOutStrict(time, start, max_wait_time) == (time - start) > max_wait_time

\* (time.time() - start_time) >= max_wait_time
TimedOut(time, start, max_wait_time) == (time - start) >= max_wait_time

\* the answer says the validation is still running
StillValidating(r) ==
    r.raises = "none" /\ r.status_code = 200 /\ r.has_status /\ r.phase = "VALIDATING"

\* final_status of the return each other outcome of the request leads to;
\* a status without phase reads as 'UNKNOWN'
FinalStatus(r) ==
    CASE r.raises = "RequestException" -> "NETWORK_ERROR"
      [] r.raises = "ValueError" -> "ERROR"
      [] r.raises = "none" /\ r.status_code = 200 /\ r.has_status ->
            IF r.phase = None THEN "UNKNOWN" ELSE r.phase
      [] r.raises = "none" /\ r.status_code = 200 /\ ~r.has_status -> "UNKNOWN"
      [] r.raises = "none" /\ r.status_code = 404 -> "NOT_FOUND"
      [] OTHER -> "API_ERROR"

\* the entry of poll_validation_status: start_time and poll_attempts are set
\* on the first call, then the timeout check
EnterPoll ==
    /\ poll_pc = "enter"
    /\ LET start == IF start_time = NoTime THEN now ELSE start_time
           attempts == IF start_time = NoTime THEN 0 ELSE poll_attempts
       IN  /\ start_time' = start
           /\ poll_attempts' = attempts
           /\ IF TimedOut(now, start, arg.max_wait_time)
              THEN /\ ret' = PollResult("TIMEOUT", FALSE, attempts)
                   /\ called' = TRUE
                   /\ poll_pc' = "returned"
              ELSE /\ poll_pc' = "get"
                   /\ UNCHANGED << ret, called >>
    /\ UNCHANGED << fn, arg, Main, now, response >>

\* the status request and the branch its outcome selects; poll_attempts is
\* incremented once requests.get has returned
GetStatus ==
    /\ poll_pc = "get"
    /\ \E r \in Responses, d \in 0..(RequestTimeout + MaxJitter) :
          LET attempts == IF r.raises = "RequestException"
                          THEN poll_attempts ELSE poll_attempts + 1
          IN  /\ now' = now + d
              /\ response' = r
              /\ poll_attempts' = attempts
              /\ IF StillValidating(r)
                 THEN /\ poll_pc' = "sleep"
                      /\ UNCHANGED << ret, called >>
                 ELSE /\ ret' = PollResult(FinalStatus(r), r.phase = "COMPLETED", attempts)
                      /\ called' = TRUE
                      /\ poll_pc' = "returned"
    /\ UNCHANGED << fn, arg, Main, start_time >>

\* time.sleep(3), then the recursive call with start_time and poll_attempts
SleepAndRecur ==
    /\ poll_pc = "sleep"
    /\ \E late \in 0..MaxJitter : now' = now + SleepSeconds + late
    /\ poll_pc' = "enter"
    /\ UNCHANGED << fn, arg, ret, called, Main, start_time, poll_attempts, response >>

PollInit ==
    /\ Idle
    /\ Pending("poll_validation_status")
    /\ arg \in [max_wait_time : 0..MaxWaitTime]
    /\ poll_pc = "enter"
    /\ now \in {0, 10}
    /\ start_time = NoTime
    /\ poll_attempts = 0
    /\ response = NoResponse

PollNext == EnterPoll \/ GetStatus \/ SleepAndRecur

\* the function runs in one thread, each request ends within its timeout and
\* each sleep ends: a step that can be taken is taken
PollSpec == PollInit /\ [][PollNext]_vars /\ WF_vars(PollNext)

\* fm_configs and errors when the loop has examined the first i config defs
AfterDef(i) ==
    CheckRequiredLoop(SubSeq(arg.template_config_defs, 1, i),
                      [fm |-> arg.fm_configs, errors |-> arg.errors], 1)

\* value is in recommended_values neither as it stands nor in lower case
FailsBoth(value, recommended_values) ==
    /\ \A i \in 1..Len(recommended_values) : recommended_values[i] # value
    /\ \A i \in 1..Len(recommended_values) : Lower(recommended_values[i]) # Lower(value)

CountMsg(s, msg) == Cardinality({i \in 1..Len(s) : s[i] = msg})

\* the config def examined i-th has recommended values and its property is
\* resolved: the errors hold its message once if the value fails both
\* comparisons, and not at all otherwise
CheckedAt(i) ==
    LET d == arg.template_config_defs[i]
        st == AfterDef(i)
    IN  (d.recommended_values # << >> /\ d.name \in DOMAIN st.fm) =>
           CountMsg(ret.errors,
                    RecommendedError(d.name, st.fm[d.name], d.recommended_values))
              = (IF FailsBoth(st.fm[d.name], d.recommended_values) THEN 1 ELSE 0)

\* C11 (as stated): every resolved property whose config def has
\* recommended_values is checked case-sensitively, then case-insensitively;
\* the error is in the list exactly when both fail, and never twice.
C11_EveryResolvedPropertyChecked ==
    fn = "_check_required_configs" /\ called =>
       \A i \in 1..Len(arg.template_config_defs) : CheckedAt(i)

\* C11 (amended): the same for every resolved property whose config def is
\* not internal; and every recommended-values error of the list belongs to a
\* value that fails both comparisons.
C11_NonInternalPropertyChecked ==
    fn = "_check_required_configs" /\ called =>
       /\ \A i \in 1..Len(arg.template_config_defs) :
             ~arg.template_config_defs[i].internal => CheckedAt(i)
       /\ \A j \in 1..Len(ret.errors) :
             ret.errors[j].kind = "recommended" =>
                FailsBoth(ret.errors[j].value, ret.errors[j].recommended_values)

\* C11 witness: two non-internal config defs of one property, resolved to a
\* value that fails both comparisons, leave one error; and a value that
\* differs in case only leaves none.
C11_Witness ==
    /\ fn = "_check_required_configs" /\ called
    /\ Len(arg.template_config_defs) = 2
    /\ \A i \in 1..2 :
          /\ ~arg.template_config_defs[i].internal
          /\ arg.template_config_defs[i].recommended_values = RecommendedValues
    /\ "authentication.method" \in DOMAIN arg.fm_configs
    /\ arg.fm_configs["authentication.method"] = "OTHER"
    /\ CountMsg(ret.errors,
                RecommendedError("authentication.method", "OTHER", RecommendedValues)) = 1

\* the aliases of the transform keys of the model
TransformKeyAliases == {"t1", "t2", "t3"}

\* the verdict of an alias: its type is present and in the supported set
AliasAllowed(cd, allowed_transform_types, alias) ==
    UserGet(cd, "transforms." \o alias \o ".type") \in allowed_transform_types

Classified == fn = "classify_transform_configs_with_full_chain" /\ called

\* C12: every transforms.<alias>.* key of the input is in `allowed` exactly
\* when its alias's type is present and supported, and in `disallowed`
\* exactly when it is not, so it is in one bucket and never in both or neither.
C12_TransformKeysPartitioned ==
    Classified =>
       \A alias \in TransformKeyAliases :
          \A k \in KeysWithPrefix(arg.config, "transforms." \o alias \o ".") :
             /\ (k \in DOMAIN ret.allowed)
                   <=> AliasAllowed(arg.config, arg.allowed_transform_types, alias)
             /\ (k \in DOMAIN ret.disallowed)
                   <=> ~AliasAllowed(arg.config, arg.allowed_transform_types, alias)

\* the aliases of the predicates chain
PredicateAliases(cd) == SplitChain(UserGet(cd, "predicates"))

\* some transform of the chain that references predicate p is disallowed
ReferencedByDisallowed(cd, allowed_transform_types, p) ==
    \E alias \in Range(TransformAliases(cd)) :
       /\ ~AliasAllowed(cd, allowed_transform_types, alias)
       /\ UserGet(cd, "transforms." \o alias \o ".predicate") = p

\* bucket d lists exactly the aliases of the sequence under key
Lists(d, key, aliases) ==
    IF aliases = << >> THEN key \notin DOMAIN d
    ELSE key \in DOMAIN d /\ d[key] = JoinAliases(aliases)

\* t1 of an allowed type, t2 of a disallowed type, p1 referenced by t2 only
CouplingCase ==
    /\ Classified
    /\ UserGet(arg.config, "transforms") = "t1,t2"
    /\ AliasAllowed(arg.config, arg.allowed_transform_types, "t1")
    /\ ~AliasAllowed(arg.config, arg.allowed_transform_types, "t2")
    /\ UserGet(arg.config, "transforms.t2.predicate") = "p1"
    /\ UserGet(arg.config, "transforms.t1.predicate") = None
    /\ "p1" \in Range(PredicateAliases(arg.config))

\* C13: a predicate of the predicates chain that a disallowed transform
\* references is disallowed: the disallowed bucket lists it and holds its
\* keys, the allowed bucket lists only the other predicates and holds none of
\* its keys; with t1 allowed and t2 disallowed referencing p1, t1 is the
\* allowed chain, t2 the disallowed chain and p1 is a disallowed predicate.
C13_PredicateFollowsDisallowedTransform ==
    Classified =>
       LET cd == arg.config
           Hit(p) == ReferencedByDisallowed(cd, arg.allowed_transform_types, p)
           Free(p) == ~Hit(p)
       IN  /\ Lists(ret.disallowed, "predicates", SelectSeq(PredicateAliases(cd), Hit))
           /\ Lists(ret.allowed, "predicates", SelectSeq(PredicateAliases(cd), Free))
           /\ \A p \in Range(PredicateAliases(cd)) :
                 Hit(p) =>
                    /\ KeysWithPrefix(cd, "predicates." \o p \o ".") \subseteq DOMAIN ret.disallowed
                    /\ KeysWithPrefix(cd, "predicates." \o p \o ".") \cap DOMAIN ret.allowed = {}
           /\ CouplingCase =>
                 /\ ret.allowed["transforms"] = "t1"
                 /\ ret.disallowed["transforms"] = "t2"
                 /\ ret.disallowed["predicates"] = "p1"
                 /\ KeysWithPrefix(cd, "transforms.t1.") \subseteq DOMAIN ret.allowed
                 /\ KeysWithPrefix(cd, "transforms.t2.") \subseteq DOMAIN ret.disallowed

\* C13 witness: the case of the claim with p2 beside p1 in the predicates
\* chain; p1 went to the disallowed predicates and p2 alone stayed allowed
C13_Witness ==
    /\ CouplingCase
    /\ UserGet(arg.config, "predicates") = "p1,p2"
    /\ "predicates.p1.type" \in DOMAIN ret.disallowed
    /\ ret.disallowed["predicates"] = "p1"
    /\ ret.allowed["predicates"] = "p2"

\* the user config at idx is handed to _process_user_config_in_connector_config_def
AtRule ==
    /\ pc = "connector_defs"
    /\ idx \in 1..Len(config_dict)
    /\ ~(\/ StartsWith(config_dict[idx].key, "connector.class")
         \/ StartsWith(config_dict[idx].key, "name")
         \/ StartsWith(config_dict[idx].key, "transforms")
         \/ StartsWith(config_dict[idx].key, "predicates"))
    /\ FindRuleIndex(config_dict[idx].key, connector_config_defs) # 0

\* what the rule of the user config at idx leaves in fm_configs, warnings and
\* the backlog, for every order its set of referenced keys can be iterated in
RuleOutcomes ==
    LET rule == connector_config_defs[FindRuleIndex(config_dict[idx].key, connector_config_defs)]
    IN  { ProcessUserConfigInConnectorConfigDef(rule, config_dict[idx].value, config_dict,
                                                template_config_defs, St, order) :
             order \in Orders(RuleReferencedKeys(rule)) }

\* C14: the mapping does not depend on the iteration order of the set of
\* referenced keys: whatever the order, a rule leaves the same fm_configs,
\* warnings and backlog, so two runs on one input end in one MappingResult.
C14_IndependentOfSetOrder ==
    AtRule => Cardinality(RuleOutcomes) = 1

Derived == fn = "derivation_method" /\ called

\* C15: an explicit user key wins over a value parsed out of a connection
\* string: when the user config holds db.name and a connection url a
\* database name can be parsed from, db.name is derived as the user's value.
C15_ExplicitKeyWins ==
    (/\ Derived
     /\ arg.template_config_defs[1].name = "db.name"
     /\ "db.name" \in UserKeySet(arg.config_dict)
     /\ "connection.url" \in UserKeySet(arg.config_dict)
     /\ ParsedDbName(UserGet(arg.config_dict, "connection.url")) # None)
       => /\ ~ret.raised
          /\ "db.name" \in DOMAIN ret.fm_configs
          /\ ret.fm_configs["db.name"] = UserGet(arg.config_dict, "db.name")

\* the fallback constant the spec gives a property
FallbackConstant(name) ==
    CASE name = "redis.portnumber"      -> "6379"
      [] name = "authentication.method" -> "PLAIN"
      [] name = "csfle.enabled"         -> "false"
      [] name = "csfle.onFailure"       -> "FAIL"

\* nothing supplies the property: no user key, no connection string with a
\* value for it, no template default (and so no sibling FM value)
NothingSupplies(name, cd, defs) ==
    /\ defs[1].default_value = None
    /\ name = "redis.portnumber" =>
          /\ "redis.portnumber" \notin UserKeySet(cd)
          /\ HostsPort(UserGet(cd, "redis.hosts")) = None
          /\ RedisUrlPort(UserGet(cd, "connection.url")) = None
    /\ name = "authentication.method" => "security.protocol" \notin UserKeySet(cd)

\* C16: when the template declares redis.portnumber, authentication.method,
\* csfle.enabled or csfle.onFailure and nothing supplies a value, Step 3
\* resolves the property to its fallback constant.
C16_FallbackConstants ==
    (/\ Derived
     /\ arg.template_config_defs[1].name \in
           {"redis.portnumber", "authentication.method", "csfle.enabled", "csfle.onFailure"}
     /\ NothingSupplies(arg.template_config_defs[1].name, arg.config_dict,
                        arg.template_config_defs))
       => /\ arg.template_config_defs[1].name \in DOMAIN ret.fm_configs
          /\ ret.fm_configs[arg.template_config_defs[1].name]
                = FallbackConstant(arg.template_config_defs[1].name)

RuleCalled == fn = "_process_user_config_in_connector_config_def" /\ called

\* C17: a dynamic-mapper rule whose name is no declared template config has
\* its mapper invoked with the user value: a mapped value is written to
\* fm_configs under the name, and only without one is the name backlogged.
C17_DynamicMapperInvoked ==
    (/\ RuleCalled
     /\ arg.connector_config_def.value.type = "none"
     /\ ~arg.connector_config_def.has_switch
     /\ arg.connector_config_def.mapper # None
     /\ arg.connector_config_def.name \notin DefNames(arg.template_config_defs))
       => LET name == arg.connector_config_def.name
              mapped == InferDynamicMappings(arg.connector_config_def.mapper,
                                             arg.user_config_value)
          IN  IF mapped # None
              THEN /\ name \in DOMAIN ret.fm
                   /\ ret.fm[name] = mapped
                   /\ name \notin ret.sml
              ELSE name \in ret.sml

\* C18: a rule whose value references one template property that is neither
\* internal nor derivable, and that the user config does not hold: an exact
\* "${name}" copies the user's value under the referenced key, any other
\* literal puts the rule's name in the backlog.
C18_PlaceholderWrittenOrBacklogged ==
    (/\ RuleCalled
     /\ arg.connector_config_def.value.type = "str"
     /\ ~arg.connector_config_def.value.internal
     /\ arg.connector_config_def.name \notin DOMAIN arg.fm_configs
     /\ \E k \in CallReferencedKeys :
           /\ CallReferencedKeys = {k}
           /\ ~DefIsInternal(k, arg.template_config_defs)
           /\ ~HasDerivationMethod(k)
           /\ k \notin UserKeySet(arg.user_configs))
       => LET k == CHOOSE x \in CallReferencedKeys : TRUE
          IN  IF IsExactReference(arg.connector_config_def.value, k)
              THEN k \in DOMAIN ret.fm /\ ret.fm[k] = arg.user_config_value
              ELSE arg.connector_config_def.name \in ret.sml

\* the first entry of the mapping whose value is the user's value, or 0
MatchingEntry(switch_mapping, user_value) ==
    IF \E i \in 1..Len(switch_mapping) : switch_mapping[i].v = user_value
    THEN CHOOSE i \in 1..Len(switch_mapping) :
            /\ switch_mapping[i].v = user_value
            /\ \A j \in 1..(i - 1) : switch_mapping[j].v # user_value
    ELSE 0

\* the rule of the call is a reverse switch whose entry matching the user's
\* value has the key "default"
DefaultMatched ==
    /\ RuleCalled
    /\ arg.connector_config_def.value.type = "none"
    /\ arg.connector_config_def.has_switch
    /\ LET m == arg.connector_config_def.switch[1].mapping
           i == MatchingEntry(m, arg.user_config_value)
       IN  /\ \A j \in 1..Len(m) : m[j].is_str /\ ~m[j].ph
           /\ i # 0
           /\ m[i].k = "default"

\* C20: a reverse switch whose matching entry has the key "default" resolves
\* to no value: the call leaves the template key of the switch as it found
\* it in fm_configs, and never writes the string "default" under it.
C20_ReverseSwitchDefaultIsNoValue ==
    DefaultMatched =>
       LET key == arg.connector_config_def.switch[1].key
       IN  /\ key \in DOMAIN ret.fm <=> key \in DOMAIN arg.fm_configs
           /\ key \in DOMAIN ret.fm => ret.fm[key] = arg.fm_configs[key] /\ ret.fm[key] # "default"

\* C20 witness: the switch on a declared, non-internal template key with
\* nothing resolved yet reached its default entry; the call wrote no value
\* and left the warning that the user value matches no case
C20_Witness ==
    /\ DefaultMatched
    /\ arg.fm_configs = EmptyDict
    /\ FindDefIndex("table", arg.template_config_defs) # 0
    /\ ~DefIsInternal("table", arg.template_config_defs)
    /\ ret.fm = EmptyDict
    /\ ret.w = << [kind |-> "switch_no_match", key |-> "topic"] >>

Parsed == fn \in {"_parse_jdbc_url", "parse_jdbc_url"} /\ called

\* C19: a url holding the Oracle marker in any letter case is parsed in
\* Oracle-descriptor mode, and its upper-case descriptor yields the host
C19_OracleMarkerAnyCase ==
    (Parsed /\ arg.url.marker # "") =>
       /\ ret.mode = "oracle"
       /\ arg.url.upper_keywords => "host" \in DOMAIN ret.connection_info


FindCalled == fn = "find_best_match" /\ called

\* the combined score the scoring contract gives candidate i: 0.7 * cosine +
\* 0.3 * string similarity with an embedding backend, the string term alone
\* without one
ContractScore(i) ==
    LET r == FuzzRatio(LowerChars(arg.sm_name), LowerChars(arg.fm_properties[i].name))
    IN  IF arg.backend.available THEN 7 * arg.fm_properties[i].cosine + 30 * r ELSE 30 * r

\* the candidates find_best_match scores
Candidates == {i \in 1..Len(arg.fm_properties) : ~arg.fm_properties[i].direct_match}

\* C21: with no exact key, a best candidate whose combined score is at least
\* the threshold 0.70, the score 0.70 itself included, is returned as a
\* semantic match, and a best score below the threshold returns nothing.
C21_ThresholdInclusive ==
    (/\ FindCalled
     /\ arg.semantic_threshold = 7000
     /\ \A i \in 1..Len(arg.fm_properties) : arg.fm_properties[i].name # arg.sm_name)
       => /\ ~ret.raised
          /\ IF \E i \in Candidates : ContractScore(i) >= 7000
             THEN /\ ret.match_type = "semantic"
                  /\ ret.matched \in Candidates
                  /\ ret.similarity_score = ContractScore(ret.matched)
                  /\ \A i \in Candidates : ContractScore(i) <= ret.similarity_score
             ELSE ret.match_type = "none"

\* C22: a name that is a literal key of the FM property set is returned with
\* score 1.0 and type "exact", whatever the backend, the other candidates and
\* the direct_match flags.
C22_ExactMatchFirst ==
    FindCalled =>
       \A i \in 1..Len(arg.fm_properties) :
          arg.fm_properties[i].name = arg.sm_name =>
             /\ ~ret.raised
             /\ ret.matched = i
             /\ ret.similarity_score = 10000
             /\ ret.match_type = "exact"

\* C22 witness: the exact key is flagged direct_match and stands behind
\* another candidate whose scoring would raise; the call returned it as exact
C22_Witness ==
    /\ FindCalled
    /\ arg.backend.available
    /\ Len(arg.fm_properties) = 2
    /\ ~arg.fm_properties[1].direct_match
    /\ arg.fm_properties[2].name = arg.sm_name
    /\ arg.fm_properties[2].direct_match
    /\ ret.match_type = "exact"
    /\ ret.matched = 2

SimilarityCalled == fn = "calculate_similarity" /\ called

\* C23: the similarity of any two property descriptors is a score between
\* 0 and 1, whatever the cosine of their embeddings and their names.
C23_ScoreInUnitInterval ==
    SimilarityCalled =>
       /\ ~ret.raised
       /\ ret.score >= 0
       /\ ret.score <= 10000

ParsedMongo ==
    fn \in {"_parse_mongodb_connection_string", "parse_mongodb_connection_string"} /\ called

C25_ParsersOmitAbsentFields ==
    (Parsed \/ ParsedMongo) =>
        \A key \in DOMAIN ret.connection_info : ret.connection_info[key] \notin {"", None}

(***************************************************************************)
(* C26: in standard mode parse_jdbc_url returns host, db.name, user and    *)
(* password spelled as in the input url, letter case included.             *)
(***************************************************************************)
AppearsAs(text, key) ==
    CASE key = "host" -> UrlParts(text).host
      [] key = "db.name" -> UrlParts(text).db
      [] key = "user" -> UrlParts(text).user
      [] key = "password" -> UrlParts(text).password

C26_StandardModePreservesCase ==
    (Parsed /\ ret.mode = "standard") =>
        \A key \in DOMAIN ret.connection_info \cap {"host", "db.name", "user", "password"} :
            ret.connection_info[key] = AppearsAs(arg.url.text, key)


(***************************************************************************)
(* C27: whenever transformSMToFm returns a result whose errors list is     *)
(* empty, fm_configs is a mapping that holds connector.class and name: a   *)
(* return that leaves fm_configs empty carries an error.                   *)
(***************************************************************************)
C27_ErrorFreeResultIsUsable ==
    (Ended /\ result.status = "returned" /\ result.errors = << >>) =>
        /\ result.fm_is_dict
        /\ {"connector.class", "name"} \subseteq DOMAIN result.fm_configs


(***************************************************************************)
(* C29: with redaction enabled, in the config that discovery saves every   *)
(* value stored under a sensitive key is the mask, at any nesting depth    *)
(* and whatever the type of the value (string, list or mapping).           *)
(***************************************************************************)
RECURSIVE SensitiveValuesMasked(_)
SensitiveValuesMasked(d) ==
    \A k \in DOMAIN d :
        IF SensitiveConfig(k)
        THEN d[k] = Str(Mask)
        ELSE /\ d[k].type = "dict" => SensitiveValuesMasked(d[k].entries)
             /\ d[k].type = "list" =>
                   \A i \in 1..Len(d[k].items) :
                      d[k].items[i].type = "dict" =>
                         SensitiveValuesMasked(d[k].items[i].entries)

C29_SensitiveValuesMasked ==
    (fn = "_get_connector_configs" /\ called /\ arg.redact) =>
        SensitiveValuesMasked(ret.config)


(***************************************************************************)
(* C28: in the result of the classification, every predicate that a        *)
(* transforms.<alias>.predicate key of the allowed bucket references is    *)
(* listed in the predicates chain of the allowed bucket.                   *)
(***************************************************************************)
\* the chain d holds under key lists alias p
ListedIn(d, key, p) ==
    /\ key \in DOMAIN d
    /\ \E aliases \in {<< "p1" >>, << "p2" >>, << "p1", "p2" >>} :
          d[key] = JoinAliases(aliases) /\ p \in Range(aliases)

C28_AllowedPredicateReferencesListed ==
    Classified =>
       \A alias \in TransformKeyAliases :
          LET k == "transforms." \o alias \o ".predicate"
          IN  k \in DOMAIN ret.allowed => ListedIn(ret.allowed, "predicates", ret.allowed[k])


(***************************************************************************)
(* C30: poll_validation_status terminates: it returns, after finitely many *)
(* status requests, a result whose final_status is not VALIDATING; it      *)
(* polls again only after an answer in phase VALIDATING; and a poll        *)
(* attempt returns TIMEOUT, without a request, exactly when it starts      *)
(* max_wait_time seconds or more after the first call.                     *)
(***************************************************************************)
PollReturned == fn = "poll_validation_status" /\ called

\* seconds since the first call, at the entry of a poll attempt
Elapsed == IF start_time = NoTime THEN 0 ELSE now - start_time

C30_PollTerminates ==
    /\ <>PollReturned
    /\ [](PollReturned => ret.final_status # "VALIDATING")
    /\ []((poll_pc = "sleep" \/ (poll_pc \in {"enter", "get"} /\ response # NoResponse))
             => (response.status_code = 200 /\ response.phase = "VALIDATING"))
    /\ [](poll_attempts > 0 => SleepSeconds * (poll_attempts - 1) < arg.max_wait_time)
    /\ [][poll_pc = "enter" =>
             /\ (Elapsed >= arg.max_wait_time)
                   <=> (called' /\ ret'.final_status = "TIMEOUT")
             /\ poll_attempts' = (IF start_time = NoTime THEN 0 ELSE poll_attempts)]_vars

\* C30 witness: the remote stayed in VALIDATING, the function polled twice or
\* more and the next attempt, started after max_wait_time, returned TIMEOUT
C30_Witness ==
    /\ PollReturned
    /\ ret.final_status = "TIMEOUT"
    /\ ret.poll_attempts >= 2
    /\ now - start_time >= arg.max_wait_time

====
